---- MODULE Spec2Model ----
(***************************************************************************)
(* A model of the scrapepref repository: the redirect-following PDF        *)
(* downloader (download_pdf), the archival loops of scrape_arretes and     *)
(* process_csv, the ledger merge of save_to_csv and the pagination loop    *)
(* of scrape_arretes.                                                      *)
(***************************************************************************)
EXTENDS Integers, Sequences, FiniteSets, TLC

VARIABLES
    \* ---- download_pdf (src/src/scraper.py:118, src/rescrape_missing_s3.py:109)
    pdf_url,          \* the argument of the call
    dl_pc,            \* "bootstrap", "loop", "returned" or "raised"
    current_url,      \* the URL the next GET goes to
    redirect_count,   \* redirections consumed so far
    dl_result,        \* the value returned (meaningful once dl_pc = "returned")
    output_file,      \* the file at output_path (NoFile while there is none)
    \* history of the call (not program state)
    bootstrap_failed, \* the request to the origin raised
    gets,             \* the number of GET requests issued in the loop
    last_response,    \* the last response received in the loop (NoResponse before)
    loop_fault,       \* a request of the loop raised
    only_redirects,   \* every response so far was HTML offering a redirect
    first_page,       \* what the first response of the call was
    \* ---- save_to_csv (src/src/scraper.py:866)
    csv_file,         \* data/arretes.csv: whether it exists, and its rows as text
    \* history of the calls (not program state)
    last_arretes,     \* the argument of the last call that wrote the ledger
    rows_before,      \* the number of rows the ledger had before that call
    repeated,         \* that call had the argument of the call before it
    latest,           \* per key: date_scrape of the last record saved under it
    \* ---- the storage collaborator
    bucket,           \* the keys of the objects in the S3 bucket
    \* ---- scrape_arretes (src/src/scraper.py:625)
    run,              \* the time of this run of the script: the date_scrape of its records
    env_dry_run,      \* the DRY_RUN variable of the environment
    credentials,      \* the AWS keys and the bucket name are all set
    DRY_RUN,          \* the module-level flag
    s3_client,        \* "None" or "client"
    MAX_PAGES,        \* the configured ceiling, 0 for none
    sc_pc,            \* where scrape_arretes stands
    page_num,         \* the page being processed
    all_arretes,      \* the record list of the run
    arch_i,           \* the index of the next record of the archival loop
    local_files,      \* the names of the PDF files in data/
    returned,         \* the list scrape_arretes returned
    \* history of the run (not program state)
    extracted,        \* every record an extraction returned, in order
    fault_pages,      \* the pages at which an extraction or a navigation raised
    searched_at,      \* the pages at which a next-page control was looked for
    pages_extracted,  \* the number of calls of extract_arretes_from_page
    archive_log,      \* per record index: what the archival loop did with it
    archived_before,  \* the bucket as it was when the run started
    saved,            \* the list handed to save_to_csv
    \* ---- the browser of scrape_arretes (src/src/scraper.py:640)
    resources,        \* playwright_instance, browser, context, page: "None", "open" or "closed"
    closing_faults,   \* the resources whose close() (stop() for Playwright) raises in this run
    close_called,     \* history: the resources the finally block has called close() on
    \* ---- process_csv (src/rescrape_missing_s3.py:255)
    rs_DRY_RUN,       \* the module-level flag of rescrape_missing_s3.py
    rs_pc,            \* "loop", "write" or "done"
    rs_df,            \* df, the DataFrame read from the CSV file
    to_process,       \* the indices of rows_to_process
    rs_i,             \* the index the loop has reached
    rs_csv,           \* the rows of the CSV file, as text
    rs_local_files,   \* the names of the PDF files in data/
    \* history of the call (not program state)
    rs_log,           \* per row: what the loop asked of storage and of the Downloader
    \* extract_arretes_from_page
    decree_divs,      \* the divs of class node--type--tc13-decree of the page, in document order
    loose_anchors,    \* the hrefs of the <a> elements of the page outside those divs
    ex_pc,            \* "select", "extract" or "returned"
    div_i,            \* the index the selection loop has reached
    arretes_elements, \* the divs kept as candidates (their indices in decree_divs)
    seen_hrefs,       \* the hrefs of the candidates kept so far
    elem_i,           \* the index the extraction loop has reached
    page_arretes,     \* arretes, the list the function returns
    \* history of the call (not program state)
    ex_outcomes,      \* per candidate: how its extraction ended
    \* file_hash of extract_arrete_info
    extractions,      \* the (numero_arrete, titre) pairs and other fields of the extractions compared
    file_hashes,      \* the file_hash computed for each of them
    \* download_pdf_advanced (src/download_pdf_requests.py)
    adv_pc,           \* "attempt" or "returned"
    attempt,          \* the attempt the loop has reached
    adv_file,         \* the file at output_path
    adv_result,       \* the value returned
    adv_chunks,       \* history: the chunks of the response streamed in the last attempt
    adv_written,      \* history: the chunks written to the file in the last attempt
    adv_end,          \* history: how the last attempt ended
    \* save_to_csv on whole rows: the two ledgers
    arretes_csv,      \* data/arretes.csv, the cumulative ledger
    circulation_csv,  \* data/arretes_circulation.csv
    n_saves,          \* the number of calls of save_to_csv so far
    \* the pagination loop of scrape_arretes on a given listing
    next_controls     \* per page of the listing: the next-page control it shows

dl_vars == <<pdf_url, dl_pc, current_url, redirect_count, dl_result, output_file,
             bootstrap_failed, gets, last_response, loop_fault, only_redirects, first_page>>

ledger_hist == <<last_arretes, rows_before, repeated, latest>>

ledger_vars == <<csv_file, ledger_hist>>

scrape_vars == <<run, env_dry_run, credentials, DRY_RUN, s3_client, MAX_PAGES, sc_pc,
                 page_num, all_arretes, arch_i, local_files, returned, extracted,
                 fault_pages, searched_at, pages_extracted, archive_log,
                 archived_before, saved>>

rescrape_vars == <<rs_DRY_RUN, rs_pc, rs_df, to_process, rs_i, rs_csv, rs_local_files, rs_log>>

browser_vars == <<resources, closing_faults, close_called>>

extract_vars == <<decree_divs, loose_anchors, ex_pc, div_i, arretes_elements, seen_hrefs, elem_i,
                  page_arretes, ex_outcomes>>

hash_vars == <<extractions, file_hashes>>

adv_vars == <<adv_pc, attempt, adv_file, adv_result, adv_chunks, adv_written, adv_end>>

files_vars == <<arretes_csv, circulation_csv, n_saves>>

pagination_vars == <<next_controls>>

vars == <<dl_vars, ledger_vars, bucket, scrape_vars, rescrape_vars, browser_vars,
          extract_vars,
          hash_vars,
          adv_vars,
          files_vars,
          pagination_vars>>

\* playwright_instance, browser, context and page of scrape_arretes, and the
\* place each has in the order in which the finally block closes them.
Resources == {"playwright_instance", "browser", "context", "page"}

CloseRank(r) ==
    IF r = "page" THEN 1 ELSE IF r = "context" THEN 2 ELSE IF r = "browser" THEN 3 ELSE 4

None == "None"

\* The absent values of each kind.
NoRef == [host |-> None, path |-> None]
NoFile == [exists |-> FALSE, bytes |-> <<>>]
File(bytes) == [exists |-> TRUE, bytes |-> bytes]

Min(a, b) == IF a < b THEN a ELSE b

(***************************************************************************)
(* Bytes, content types, URLs                                              *)
(***************************************************************************)

\* b'%PDF'
PDF_MAGIC == <<"%", "P", "D", "F">>

\* response.content[:4]
First4(content) == SubSeq(content, 1, Min(4, Len(content)))

\* The bodies a server may send.
Bodies ==
    { <<>>,
      <<"%", "P", "D">>,
      <<"%", "P", "D", "F">>,
      <<"%", "P", "D", "F", "-", "1">>,
      <<"<", "h", "t", "m", "l">> }

\* str.lower() on the header fragments of the model.
Lower(s) ==
    CASE s = "Application/PDF" -> "application/pdf"
      [] s = "Text/HTML" -> "text/html"
      [] OTHER -> s

\* A Content-Type header is a sequence of fragments; a missing header is
\* read as '' (headers.get('Content-Type', '')), the empty sequence.
ContentTypes ==
    { <<>>,
      <<"application/pdf">>,
      <<"Application/PDF">>,
      <<"application/octet-stream">>,
      <<"text/html", "; charset=utf-8">>,
      <<"Text/HTML">>,
      <<"image/png">> }

\* content_type = response.headers.get('Content-Type', '').lower()
LowerAll(header) == [i \in DOMAIN header |-> Lower(header[i])]

\* 'needle' in content_type
Contains(content_type, needle) == \E i \in DOMAIN content_type : content_type[i] = needle

\* A URL is a host and a path; a reference found in a page either names a
\* host (it starts with http) or is relative to the page it was found in.
\* redirect_url.startswith('http')
StartsWithHttp(ref) == ref.host # None

\* urljoin(current_url, redirect_url) for a path-absolute reference
urljoin(base, ref) ==
    IF ref.host # None THEN [host |-> ref.host, path |-> ref.path]
    ELSE [host |-> base.host, path |-> ref.path]

\* if not redirect_url.startswith('http'): redirect_url = urljoin(current_url, redirect_url)
ResolveNoJoin(base, ref) == [host |-> ref.host, path |-> ref.path]
Resolve(base, ref) ==
    IF StartsWithHttp(ref) THEN [host |-> ref.host, path |-> ref.path]
    ELSE urljoin(base, ref)

(***************************************************************************)
(* What the server may answer to one GET                                   *)
(***************************************************************************)

\* A <script>: the string assigned to window.location.href and the string
\* assigned to window.location, NoRef where the script has no such assignment.
Scripts ==
    { [href |-> NoRef, loc |-> NoRef],
      [href |-> [host |-> None, path |-> "/x.pdf"], loc |-> NoRef],
      [href |-> NoRef, loc |-> [host |-> None, path |-> "/r"]],
      [href |-> [host |-> "h2", path |-> "/doc"], loc |-> [host |-> None, path |-> "/x.pdf"]] }

\* The <script> elements of a page, in document order.
ScriptLists ==
    {<<>>} \cup {<<s>> : s \in Scripts}
    \cup {<<s, t>> : s \in {x \in Scripts : x.href = NoRef}, t \in {x \in Scripts : x.href # NoRef}}

\* The first <meta http-equiv=refresh>, when the page has one, and the url=
\* parameter of its content attribute (NoRef when it has no url=).
Metas ==
    { [present |-> FALSE, url |-> NoRef],
      [present |-> TRUE, url |-> NoRef],
      [present |-> TRUE, url |-> [host |-> None, path |-> "/r"]] }

\* The href of every <a> of the page, in document order.
AnchorLists ==
    { <<>>,
      <<[host |-> None, path |-> "/r"]>>,
      <<[host |-> None, path |-> "/r"], [host |-> "h2", path |-> "/x.pdf"]>> }

HtmlDocs == [scripts : ScriptLists, meta : Metas, anchors : AnchorLists]

\* The parse of a body that holds no HTML.
NoHtml == [scripts |-> <<>>, meta |-> [present |-> FALSE, url |-> NoRef], anchors |-> <<>>]

\* The exceptions a request may raise: session.get raises Timeout or
\* ConnectionError, raise_for_status raises HTTPError, anything else is a
\* plain Exception.
Faults == {"Timeout", "ConnectionError", "HTTPError", "OtherException"}

OkResponse(header, content, html) ==
    [fault |-> None, header |-> header, content |-> content, html |-> html]

FaultResponse(f) ==
    [fault |-> f, header |-> <<>>, content |-> <<>>, html |-> NoHtml]

NoResponse == [fault |-> None, header |-> <<>>, content |-> <<>>, html |-> NoHtml]

HtmlBody == <<"<", "h", "t", "m", "l">>

HtmlResponses ==
    { OkResponse(<<"text/html", "; charset=utf-8">>, HtmlBody, d) : d \in HtmlDocs }
    \cup
    { OkResponse(<<"Text/HTML">>, HtmlBody, d) :
        d \in { x \in HtmlDocs : x.scripts = <<>> /\ x.anchors = <<>> } }

BinaryResponses ==
    { OkResponse(h, b, NoHtml) : h \in ContentTypes \ {<<"text/html", "; charset=utf-8">>, <<"Text/HTML">>},
                               b \in Bodies }

\* A page with a script redirect that is served without Content-Type, or
\* under a type that is neither a PDF type nor text/html.
MistypedPages ==
    { OkResponse(h, HtmlBody,
                 [scripts |-> <<[href |-> [host |-> None, path |-> "/x.pdf"], loc |-> NoRef]>>,
                  meta |-> [present |-> FALSE, url |-> NoRef],
                  anchors |-> <<>>]) : h \in {<<>>, <<"image/png">>} }

Responses ==
    {FaultResponse(f) : f \in Faults} \cup BinaryResponses \cup HtmlResponses \cup MistypedPages

(***************************************************************************)
(* download_pdf                                                            *)
(***************************************************************************)

max_redirects == 5

\* while redirect_count < max_redirects
LoopCondLax(count) == count <= max_redirects
LoopCond(count) == count < max_redirects

\* Méthode 1: the first script with a window.location.href or a
\* window.location string assignment; within one script .href is tried first.
ScriptRedirect(scripts) ==
    LET hits == {i \in DOMAIN scripts : scripts[i].href # NoRef \/ scripts[i].loc # NoRef}
    IN  IF hits = {} THEN NoRef
        ELSE LET i == CHOOSE k \in hits : \A j \in hits : k <= j
             IN  IF scripts[i].href # NoRef THEN scripts[i].href ELSE scripts[i].loc

\* Méthode 2: the meta refresh tag, when its content has a url= parameter.
MetaRedirect(meta) == IF ~meta.present THEN NoRef ELSE meta.url

\* re.compile(r'\.pdf', re.I) on an href of the model
HasPdfSuffix(ref) == ref.path = "/x.pdf"

\* Méthode 3: the first anchor whose href matches \.pdf
AnchorRedirect(anchors) ==
    LET hits == {i \in DOMAIN anchors : HasPdfSuffix(anchors[i])}
    IN  IF hits = {} THEN NoRef
        ELSE anchors[CHOOSE k \in hits : \A j \in hits : k <= j]

\* The redirect an HTML page offers, in the order the code looks for it:
\* its method ("script", "meta", "anchor", or "none") and its reference.
FindRedirectAnchorFirst(html) ==
    IF ScriptRedirect(html.scripts) # NoRef
      THEN [method |-> "script", ref |-> ScriptRedirect(html.scripts)]
    ELSE IF AnchorRedirect(html.anchors) # NoRef
      THEN [method |-> "anchor", ref |-> AnchorRedirect(html.anchors)]
    ELSE IF MetaRedirect(html.meta) # NoRef
      THEN [method |-> "meta", ref |-> MetaRedirect(html.meta)]
    ELSE [method |-> "none", ref |-> NoRef]
FindRedirect(html) ==
    IF ScriptRedirect(html.scripts) # NoRef
      THEN [method |-> "script", ref |-> ScriptRedirect(html.scripts)]
    ELSE IF MetaRedirect(html.meta) # NoRef
      THEN [method |-> "meta", ref |-> MetaRedirect(html.meta)]
    ELSE IF AnchorRedirect(html.anchors) # NoRef
      THEN [method |-> "anchor", ref |-> AnchorRedirect(html.anchors)]
    ELSE [method |-> "none", ref |-> NoRef]

\* if response.content[:4] != b'%PDF': return False
MagicOkLax(content) == TRUE
MagicOk(content) == First4(content) = PDF_MAGIC

\* 'application/pdf' in content_type or 'application/octet-stream' in content_type
IsPdfType(content_type) ==
    Contains(content_type, "application/pdf") \/ Contains(content_type, "application/octet-stream")

\* elif 'text/html' in content_type
IsHtmlTypeLax(content_type) == TRUE
IsHtmlType(content_type) == Contains(content_type, "text/html")

\* The outer handlers of download_pdf: except requests.exceptions.Timeout,
\* except requests.exceptions.RequestException, except Exception.
CaughtRequestOnly(fault) == fault \in {"Timeout", "ConnectionError", "HTTPError"}
Caught(fault) ==
    \/ fault = "Timeout"
    \/ fault \in {"Timeout", "ConnectionError", "HTTPError"}
    \/ fault \in Faults

Returned(result, written, url, count) ==
    [pc |-> "returned", result |-> result, written |-> written, url |-> url, count |-> count]

\* One iteration of the while loop, from the GET to the return or continue:
\* pc is "returned", "raised" or "loop"; written is the content written to
\* output_path (NoFile when nothing is written).
LoopIteration(url, count, resp) ==
    IF resp.fault # None THEN
        IF Caught(resp.fault) THEN Returned(FALSE, NoFile, url, count)
        ELSE [pc |-> "raised", result |-> FALSE, written |-> NoFile, url |-> url, count |-> count]
    ELSE
        LET content_type == LowerAll(resp.header) IN
        IF IsPdfType(content_type) THEN
            IF ~MagicOk(resp.content) THEN Returned(FALSE, NoFile, url, count)
            ELSE Returned(TRUE, File(resp.content), url, count)
        ELSE IF IsHtmlType(content_type) THEN
            LET found == FindRedirect(resp.html) IN
            IF found.method = "none" THEN Returned(FALSE, NoFile, url, count)
            ELSE [pc |-> "loop", result |-> FALSE, written |-> NoFile,
                  url |-> Resolve(url, found.ref), count |-> count + 1]
        ELSE Returned(FALSE, NoFile, url, count)

\* The response is an HTML page that offers a redirect.
IsRedirectPage(resp) ==
    /\ resp.fault = None
    /\ ~IsPdfType(LowerAll(resp.header))
    /\ IsHtmlType(LowerAll(resp.header))
    /\ FindRedirect(resp.html).method # "none"

\* What the first response of a call was: whether it came without a fault
\* and declared text/html and no PDF type, whether one of its scripts
\* assigns '/x.pdf' to window.location.href, and whether that script is the
\* first of the page that assigns a string to window.location or to
\* window.location.href.
NoPage == [seen |-> FALSE, html |-> FALSE, contains |-> FALSE, first |-> FALSE]

XPdf == [host |-> None, path |-> "/x.pdf"]

PageClass(resp) ==
    [seen |-> TRUE,
     html |-> /\ resp.fault = None
              /\ ~IsPdfType(LowerAll(resp.header))
              /\ IsHtmlType(LowerAll(resp.header)),
     contains |-> \E i \in DOMAIN resp.html.scripts : resp.html.scripts[i].href = XPdf,
     first |-> \E i \in DOMAIN resp.html.scripts :
                  /\ resp.html.scripts[i].href = XPdf
                  /\ \A j \in 1..(i - 1) : /\ resp.html.scripts[j].href = NoRef
                                            /\ resp.html.scripts[j].loc = NoRef]

StartUrls == { [host |-> "h1", path |-> "/doc"], [host |-> "h1", path |-> "/x.pdf"] }

DlInit ==
    /\ pdf_url \in StartUrls
    /\ dl_pc = "bootstrap"
    /\ current_url = NoRef
    /\ redirect_count = 0
    /\ dl_result = FALSE
    /\ output_file = NoFile
    /\ bootstrap_failed = FALSE
    /\ gets = 0
    /\ last_response = NoResponse
    /\ loop_fault = FALSE
    /\ only_redirects = TRUE
    /\ first_page = NoPage
    \* the other components stay idle
    /\ csv_file = [exists |-> FALSE, rows |-> <<>>]
    /\ last_arretes = <<>>
    /\ rows_before = 0
    /\ repeated = FALSE
    /\ latest = <<>>
    /\ bucket = {}
    /\ run = 0
    /\ env_dry_run = FALSE
    /\ credentials = FALSE
    /\ DRY_RUN = FALSE
    /\ s3_client = None
    /\ MAX_PAGES = 0
    /\ sc_pc = "idle"
    /\ page_num = 0
    /\ all_arretes = <<>>
    /\ arch_i = 0
    /\ local_files = {}
    /\ returned = <<>>
    /\ extracted = <<>>
    /\ fault_pages = {}
    /\ searched_at = {}
    /\ pages_extracted = 0
    /\ archive_log = <<>>
    /\ archived_before = {}
    /\ saved = <<>>
    /\ rs_DRY_RUN = FALSE
    /\ rs_pc = "idle"
    /\ rs_df = <<>>
    /\ to_process = {}
    /\ rs_i = 0
    /\ rs_csv = <<>>
    /\ rs_local_files = {}
    /\ rs_log = <<>>
    /\ resources = [r \in Resources |-> "None"]
    /\ closing_faults = {}
    /\ close_called = {}
    /\ decree_divs = <<>>
    /\ loose_anchors = {}
    /\ ex_pc = "idle"
    /\ div_i = 0
    /\ arretes_elements = <<>>
    /\ seen_hrefs = {}
    /\ elem_i = 0
    /\ page_arretes = <<>>
    /\ ex_outcomes = <<>>
    /\ extractions = <<>>
    /\ file_hashes = <<>>
    /\ adv_pc = "idle"
    /\ attempt = 0
    /\ adv_file = NoFile
    /\ adv_result = FALSE
    /\ adv_chunks = <<>>
    /\ adv_written = <<>>
    /\ adv_end = "none"
    /\ arretes_csv = [exists |-> FALSE, rows |-> <<>>]
    /\ circulation_csv = [exists |-> FALSE, rows |-> <<>>]
    /\ n_saves = 0
    /\ next_controls = <<>>

\* Étape 1: session.get(base_url, timeout=10) inside its own try/except
\* Exception; then current_url = pdf_url, redirect_count = 0.
DlBootstrapFatal ==
    /\ dl_pc = "bootstrap"
    /\ \E fault \in Faults \cup {None} :
        /\ bootstrap_failed' = (fault # None)
        /\ dl_pc' = IF fault # None THEN "returned" ELSE "loop"
    /\ current_url' = pdf_url
    /\ redirect_count' = 0
    /\ UNCHANGED <<pdf_url, dl_result, output_file, gets, last_response,
                   loop_fault, only_redirects, first_page>>
    /\ UNCHANGED <<ledger_vars, bucket, scrape_vars, rescrape_vars, browser_vars>>
    /\ UNCHANGED extract_vars
    /\ UNCHANGED hash_vars
    /\ UNCHANGED adv_vars
    /\ UNCHANGED files_vars
    /\ UNCHANGED pagination_vars
DlBootstrap ==
    /\ dl_pc = "bootstrap"
    /\ \E fault \in Faults \cup {None} : bootstrap_failed' = (fault # None)
    /\ dl_pc' = "loop"
    /\ current_url' = pdf_url
    /\ redirect_count' = 0
    /\ UNCHANGED <<pdf_url, dl_result, output_file, gets, last_response,
                   loop_fault, only_redirects, first_page>>
    /\ UNCHANGED <<ledger_vars, bucket, scrape_vars, rescrape_vars, browser_vars>>
    /\ UNCHANGED extract_vars
    /\ UNCHANGED hash_vars
    /\ UNCHANGED adv_vars
    /\ UNCHANGED files_vars
    /\ UNCHANGED pagination_vars

\* Étape 2: one pass of the while loop.
DlGet ==
    /\ dl_pc = "loop"
    /\ LoopCond(redirect_count)
    /\ \E resp \in Responses :
        LET out == LoopIteration(current_url, redirect_count, resp) IN
        /\ gets' = gets + 1
        /\ dl_pc' = out.pc
        /\ dl_result' = out.result
        /\ current_url' = out.url
        /\ redirect_count' = out.count
        /\ output_file' = IF out.written.exists THEN out.written ELSE output_file
        /\ last_response' = IF resp.fault = None THEN resp ELSE last_response
        /\ loop_fault' = (loop_fault \/ resp.fault # None)
        /\ only_redirects' = (only_redirects /\ IsRedirectPage(resp))
        /\ first_page' = IF gets = 0 THEN PageClass(resp) ELSE first_page
    /\ UNCHANGED <<pdf_url, bootstrap_failed>>
    /\ UNCHANGED <<ledger_vars, bucket, scrape_vars, rescrape_vars, browser_vars>>
    /\ UNCHANGED extract_vars
    /\ UNCHANGED hash_vars
    /\ UNCHANGED adv_vars
    /\ UNCHANGED files_vars
    /\ UNCHANGED pagination_vars

\* The loop ends without a PDF: "Nombre maximum de redirections atteint".
DlExhausted ==
    /\ dl_pc = "loop"
    /\ ~LoopCond(redirect_count)
    /\ dl_pc' = "returned"
    /\ dl_result' = FALSE
    /\ UNCHANGED <<pdf_url, current_url, redirect_count, output_file, bootstrap_failed,
                   gets, last_response, loop_fault, only_redirects, first_page>>
    /\ UNCHANGED <<ledger_vars, bucket, scrape_vars, rescrape_vars, browser_vars>>
    /\ UNCHANGED extract_vars
    /\ UNCHANGED hash_vars
    /\ UNCHANGED adv_vars
    /\ UNCHANGED files_vars
    /\ UNCHANGED pagination_vars

DlNext == DlBootstrap \/ DlGet \/ DlExhausted

SpecDownload == DlInit /\ [][DlNext]_vars

(***************************************************************************)
(* save_to_csv: the cumulative ledger data/arretes.csv                     *)
(***************************************************************************)

\* The missing value pandas puts where a CSV cell is empty.
NaN == "NaN"

\* pd.read_csv on one cell: an empty cell is read as NaN.
ReadCell(text) == IF text = "" THEN NaN ELSE text

\* DataFrame.to_csv on one cell: NaN is written as an empty cell.
WriteCell(value) == IF value = NaN THEN "" ELSE value

\* The values extract_arrete_info gives the key fields: numero_arrete is ''
\* when no number was found.
Numeros == {"", "2024-001"}
Dates == {"12/01/2024"}

\* The longest record list passed to one call, and the number of distinct
\* scrape times.
MaxBatch == 2
MaxScrapes == 2

\* A record as save_to_csv sees it: the two key fields and date_scrape, which
\* stands for the rest of the row.
Arretes == [numero_arrete : Numeros, date_publication : Dates, date_scrape : 1..MaxScrapes]

RECURSIVE SeqsUpTo(_, _)
SeqsUpTo(S, n) ==
    IF n = 0 THEN {<<>>}
    ELSE LET shorter == SeqsUpTo(S, n - 1)
         IN  shorter \cup {Append(q, x) : q \in {r \in shorter : Len(r) = n - 1}, x \in S}

ArretesLists == SeqsUpTo(Arretes, MaxBatch)

\* pd.read_csv(csv_path), row by row
ReadRow(row) ==
    [numero_arrete |-> ReadCell(row.numero_arrete),
     date_publication |-> ReadCell(row.date_publication),
     date_scrape |-> row.date_scrape]

read_csv(rows) == [i \in DOMAIN rows |-> ReadRow(rows[i])]

\* df.to_csv(csv_path, index=False), row by row
WriteRow(row) ==
    [numero_arrete |-> WriteCell(row.numero_arrete),
     date_publication |-> WriteCell(row.date_publication),
     date_scrape |-> row.date_scrape]

to_csv(df) == [i \in DOMAIN df |-> WriteRow(df[i])]

\* subset=['numero_arrete', 'date_publication']
SubsetKey(row) == <<row.numero_arrete, row.date_publication>>

RECURSIVE SelectRows(_, _, _)
SelectRows(df, keep, i) ==
    IF i > Len(df) THEN <<>>
    ELSE (IF i \in keep THEN <<df[i]>> ELSE <<>>) \o SelectRows(df, keep, i + 1)

\* df.drop_duplicates(subset=[...], keep='last'): a row stays when no later
\* row has the same subset values (NaN counts as equal to NaN).
drop_duplicates(df) ==
    SelectRows(df, {i \in DOMAIN df : \A j \in (i + 1)..Len(df) : SubsetKey(df[j]) # SubsetKey(df[i])}, 1)

NoCsv == [exists |-> FALSE, rows |-> <<>>]

\* The ledger file after save_to_csv(arretes), for a non-empty list:
\* read + concat + drop_duplicates + write when the file exists, a plain
\* write of the new rows when it does not.
MergeLedgerOverwrite(file, arretes) ==
    [exists |-> TRUE, rows |-> to_csv(arretes)]
MergeLedger(file, arretes) ==
    IF file.exists
      THEN [exists |-> TRUE, rows |-> to_csv(drop_duplicates(read_csv(file.rows) \o arretes))]
      ELSE [exists |-> TRUE, rows |-> to_csv(arretes)]

\* The key of a row as the file shows it.
FileKey(row) == <<WriteCell(row.numero_arrete), WriteCell(row.date_publication)>>

FileKeys == Numeros \X Dates

\* date_scrape of the last record of the list under key k (0 when none).
LastUnder(arretes, k) ==
    LET hits == {i \in DOMAIN arretes : FileKey(arretes[i]) = k}
    IN  IF hits = {} THEN 0
        ELSE arretes[CHOOSE i \in hits : \A j \in hits : j <= i].date_scrape

LedgerInit ==
    /\ csv_file = NoCsv
    /\ last_arretes = <<>>
    /\ rows_before = 0
    /\ repeated = FALSE
    /\ latest = [k \in FileKeys |-> 0]
    \* the other components stay idle
    /\ pdf_url = NoRef
    /\ dl_pc = "idle"
    /\ current_url = NoRef
    /\ redirect_count = 0
    /\ dl_result = FALSE
    /\ output_file = NoFile
    /\ bootstrap_failed = FALSE
    /\ gets = 0
    /\ last_response = NoResponse
    /\ loop_fault = FALSE
    /\ only_redirects = TRUE
    /\ first_page = NoPage
    /\ bucket = {}
    /\ run = 0
    /\ env_dry_run = FALSE
    /\ credentials = FALSE
    /\ DRY_RUN = FALSE
    /\ s3_client = None
    /\ MAX_PAGES = 0
    /\ sc_pc = "idle"
    /\ page_num = 0
    /\ all_arretes = <<>>
    /\ arch_i = 0
    /\ local_files = {}
    /\ returned = <<>>
    /\ extracted = <<>>
    /\ fault_pages = {}
    /\ searched_at = {}
    /\ pages_extracted = 0
    /\ archive_log = <<>>
    /\ archived_before = {}
    /\ saved = <<>>
    /\ rs_DRY_RUN = FALSE
    /\ rs_pc = "idle"
    /\ rs_df = <<>>
    /\ to_process = {}
    /\ rs_i = 0
    /\ rs_csv = <<>>
    /\ rs_local_files = {}
    /\ rs_log = <<>>
    /\ resources = [r \in Resources |-> "None"]
    /\ closing_faults = {}
    /\ close_called = {}
    /\ decree_divs = <<>>
    /\ loose_anchors = {}
    /\ ex_pc = "idle"
    /\ div_i = 0
    /\ arretes_elements = <<>>
    /\ seen_hrefs = {}
    /\ elem_i = 0
    /\ page_arretes = <<>>
    /\ ex_outcomes = <<>>
    /\ extractions = <<>>
    /\ file_hashes = <<>>
    /\ adv_pc = "idle"
    /\ attempt = 0
    /\ adv_file = NoFile
    /\ adv_result = FALSE
    /\ adv_chunks = <<>>
    /\ adv_written = <<>>
    /\ adv_end = "none"
    /\ arretes_csv = NoCsv
    /\ circulation_csv = NoCsv
    /\ n_saves = 0
    /\ next_controls = <<>>

\* save_to_csv([]): "Aucun arrêté à sauvegarder", nothing is written.
SaveNothing ==
    /\ UNCHANGED vars

\* save_to_csv(arretes) with a non-empty list.
SaveToCsv ==
    \E arretes \in ArretesLists \ {<<>>} :
        /\ csv_file' = MergeLedger(csv_file, arretes)
        /\ last_arretes' = arretes
        /\ rows_before' = Len(csv_file.rows)
        /\ repeated' = (arretes = last_arretes)
        /\ latest' = [k \in FileKeys |->
                        IF LastUnder(arretes, k) # 0 THEN LastUnder(arretes, k) ELSE latest[k]]
        /\ UNCHANGED <<dl_vars, bucket, scrape_vars, rescrape_vars, browser_vars>>
        /\ UNCHANGED extract_vars
        /\ UNCHANGED hash_vars
        /\ UNCHANGED adv_vars
        /\ UNCHANGED files_vars
        /\ UNCHANGED pagination_vars

LedgerNext == SaveToCsv \/ SaveNothing

SpecLedger == LedgerInit /\ [][LedgerNext]_vars

(***************************************************************************)
(* save_to_csv on whole rows: data/arretes.csv, data/arretes_circulation.csv *)
(***************************************************************************)

\* The calls of save_to_csv followed.
MaxSaves == 2

\* The decrees scraped, and what pdf_s3_url holds after the archival loop:
\* nothing (the key is not set), or the URL of the object.
LedgerNumeros == {"2024-001", "2024-002"}
StorageUrls == {"", "s3://bucket/arretes/2024/x.pdf"}

\* The records a run scraped at time t may hand to save_to_csv;
\* poids_pdf_ko is in hundredths of a kilobyte, -1 when it is not set.
ScrapedArretes(t) ==
    { [numero_arrete |-> n, date_publication |-> "12/01/2024", is_circulation |-> c,
       pdf_s3_url |-> u, poids_pdf_ko |-> IF u = "" THEN -1 ELSE 1250, date_scrape |-> t] :
        n \in LedgerNumeros, c \in BOOLEAN, u \in StorageUrls }

\* pd.read_csv and df.to_csv on the rows of these files.
ReadLedgerRow(row) ==
    [row EXCEPT !.numero_arrete = ReadCell(@), !.date_publication = ReadCell(@),
                !.pdf_s3_url = ReadCell(@)]

WriteLedgerRow(row) ==
    [row EXCEPT !.numero_arrete = WriteCell(@), !.date_publication = WriteCell(@),
                !.pdf_s3_url = WriteCell(@)]

ReadLedger(rows) == [i \in DOMAIN rows |-> ReadLedgerRow(rows[i])]
WriteLedger(df) == [i \in DOMAIN df |-> WriteLedgerRow(df[i])]

\* df[df['is_circulation'] == True]
OnlyCirculation(df) == SelectRows(df, {i \in DOMAIN df : df[i].is_circulation}, 1)

\* data/arretes.csv after save_to_csv(df_new), for a non-empty list.
MergeArretes(file, df_new) ==
    IF file.exists
      THEN [exists |-> TRUE,
            rows |-> WriteLedger(drop_duplicates(ReadLedger(file.rows) \o df_new))]
      ELSE [exists |-> TRUE, rows |-> WriteLedger(df_new)]

\* data/arretes_circulation.csv after save_to_csv(df_new): left alone when
\* no new record is a circulation decree; else the file and ALL the new
\* records are concatenated, deduplicated and filtered.
MergeCirculation(file, df_new) ==
    IF OnlyCirculation(df_new) = <<>> THEN file
    ELSE IF file.exists
      THEN [exists |-> TRUE,
            rows |-> WriteLedger(OnlyCirculation(
                         drop_duplicates(ReadLedger(file.rows) \o df_new)))]
      ELSE [exists |-> TRUE, rows |-> WriteLedger(OnlyCirculation(df_new))]

FilesInit ==
    /\ arretes_csv = NoCsv
    /\ circulation_csv = NoCsv
    /\ n_saves = 0
    /\ next_controls = <<>>
    /\ csv_file = NoCsv
    /\ last_arretes = <<>>
    /\ rows_before = 0
    /\ repeated = FALSE
    /\ latest = <<>>
    /\ pdf_url = NoRef
    /\ dl_pc = "idle"
    /\ current_url = NoRef
    /\ redirect_count = 0
    /\ dl_result = FALSE
    /\ output_file = NoFile
    /\ bootstrap_failed = FALSE
    /\ gets = 0
    /\ last_response = NoResponse
    /\ loop_fault = FALSE
    /\ only_redirects = TRUE
    /\ first_page = NoPage
    /\ bucket = {}
    /\ run = 0
    /\ env_dry_run = FALSE
    /\ credentials = FALSE
    /\ DRY_RUN = FALSE
    /\ s3_client = None
    /\ MAX_PAGES = 0
    /\ sc_pc = "idle"
    /\ page_num = 0
    /\ all_arretes = <<>>
    /\ arch_i = 0
    /\ local_files = {}
    /\ returned = <<>>
    /\ extracted = <<>>
    /\ fault_pages = {}
    /\ searched_at = {}
    /\ pages_extracted = 0
    /\ archive_log = <<>>
    /\ archived_before = {}
    /\ saved = <<>>
    /\ rs_DRY_RUN = FALSE
    /\ rs_pc = "idle"
    /\ rs_df = <<>>
    /\ to_process = {}
    /\ rs_i = 0
    /\ rs_csv = <<>>
    /\ rs_local_files = {}
    /\ rs_log = <<>>
    /\ resources = [r \in Resources |-> "None"]
    /\ closing_faults = {}
    /\ close_called = {}
    /\ decree_divs = <<>>
    /\ loose_anchors = {}
    /\ ex_pc = "idle"
    /\ div_i = 0
    /\ arretes_elements = <<>>
    /\ seen_hrefs = {}
    /\ elem_i = 0
    /\ page_arretes = <<>>
    /\ ex_outcomes = <<>>
    /\ extractions = <<>>
    /\ file_hashes = <<>>
    /\ adv_pc = "idle"
    /\ attempt = 0
    /\ adv_file = NoFile
    /\ adv_result = FALSE
    /\ adv_chunks = <<>>
    /\ adv_written = <<>>
    /\ adv_end = "none"

\* save_to_csv(arretes): nothing is written for an empty list.
SaveLedgers ==
    /\ n_saves < MaxSaves
    /\ n_saves' = n_saves + 1
    /\ \E arretes \in SeqsUpTo(ScrapedArretes(n_saves + 1), MaxBatch) :
        IF arretes = <<>> THEN UNCHANGED <<arretes_csv, circulation_csv>>
        ELSE /\ arretes_csv' = MergeArretes(arretes_csv, arretes)
             /\ circulation_csv' = MergeCirculation(circulation_csv, arretes)
    /\ UNCHANGED <<dl_vars, ledger_vars, bucket, scrape_vars, rescrape_vars, browser_vars>>
    /\ UNCHANGED extract_vars
    /\ UNCHANGED hash_vars
    /\ UNCHANGED adv_vars
    /\ UNCHANGED pagination_vars

SpecFiles == FilesInit /\ [][SaveLedgers]_vars

(***************************************************************************)
(* download_pdf as one call, for the loops that call it                    *)
(***************************************************************************)

\* The loop of download_pdf run to its end on the responses the server
\* gives, one per GET; a server that has given its last response keeps
\* giving it.
RECURSIVE RunLoop(_, _, _)
RunLoop(url, count, resps) ==
    IF ~LoopCond(count) THEN Returned(FALSE, NoFile, url, count)
    ELSE LET out == LoopIteration(url, count, Head(resps))
         IN  IF out.pc = "loop"
               THEN RunLoop(out.url, out.count, IF Len(resps) > 1 THEN Tail(resps) ELSE resps)
               ELSE out

\* The response that ended the loop of that call: the one after which it
\* returned or raised; NoResponse when the loop ran out of redirections.
RECURSIVE EndedBy(_, _, _)
EndedBy(url, count, resps) ==
    IF ~LoopCond(count) THEN NoResponse
    ELSE LET out == LoopIteration(url, count, Head(resps))
         IN  IF out.pc = "loop"
               THEN EndedBy(out.url, out.count, IF Len(resps) > 1 THEN Tail(resps) ELSE resps)
               ELSE Head(resps)

\* download_pdf(pdf_url, output_path): the bootstrap request, whose fault
\* is swallowed, then the loop from pdf_url with redirect_count = 0.
download_pdf(url, boot_fault, resps) == RunLoop(url, 0, resps)

PdfGood == OkResponse(<<"application/pdf">>, <<"%", "P", "D", "F", "-", "1">>, NoHtml)
PdfLie == OkResponse(<<"application/pdf">>, HtmlBody, NoHtml)
RedirectPage ==
    OkResponse(<<"text/html", "; charset=utf-8">>, HtmlBody,
               [scripts |-> <<[href |-> [host |-> None, path |-> "/x.pdf"], loc |-> NoRef]>>,
                meta |-> [present |-> FALSE, url |-> NoRef],
                anchors |-> <<>>])

\* What the server does during one call of download_pdf.
Scenarios ==
    { <<PdfGood>>,
      <<PdfLie>>,
      <<RedirectPage, PdfGood>>,
      <<RedirectPage>>,
      <<FaultResponse("Timeout")>>,
      <<RedirectPage, FaultResponse("OtherException")>> }

(***************************************************************************)
(* Storage keys, upload                                                    *)
(***************************************************************************)

\* datetime.now().year
CurrentYear == 2025

\* re.sub(r'[^\w\s-]', '', numero).strip() on the numbers of the model, which
\* hold only digits, letters and hyphens: nothing is removed.
Sanitize(numero) == numero

\* numero_clean, "arrete" when nothing is left
NumeroClean(numero) == IF Sanitize(numero) = "" THEN "arrete" ELSE Sanitize(numero)

\* pdf_filename = f"{numero_clean}_{file_hash}.pdf"
PdfFilename(numero, file_hash) == [numero_clean |-> NumeroClean(numero), file_hash |-> file_hash]

\* s3_key = f"arretes/{annee}/{pdf_filename}"
S3Key(annee, filename) ==
    [annee |-> annee, numero_clean |-> filename.numero_clean, file_hash |-> filename.file_hash]

NoKey == [annee |-> 0, numero_clean |-> None, file_hash |-> None]

\* The values of the pdf_s3_url field: not set, f"s3://{S3_BUCKET_NAME}/{s3_key}",
\* or a text beginning with "ERROR:".
Absent == [kind |-> "absent", key |-> NoKey, text |-> ""]
S3Url(key) == [kind |-> "s3", key |-> key, text |-> ""]
ErrorSentinel(text) == [kind |-> "error", key |-> NoKey, text |-> text]

\* What s3_client.upload_file may do.
UploadOutcomes == {"ok", "ClientError", "OtherException"}

\* upload_pdf_to_s3(s3_client, pdf_path, s3_key): what it returns ("url",
\* "None", or "raise" when the exception is not a ClientError) and whether the
\* object was put in the bucket.
upload_pdf_to_s3_simulated(dry_run, outcome) == [ret |-> "url", stored |-> FALSE]
upload_pdf_to_s3(dry_run, outcome) ==
    IF dry_run THEN [ret |-> "url", stored |-> FALSE]
    ELSE IF outcome = "ok" THEN [ret |-> "url", stored |-> TRUE]
    ELSE IF outcome = "ClientError" THEN [ret |-> "None", stored |-> FALSE]
    ELSE [ret |-> "raise", stored |-> FALSE]

\* Python's round(n / d) to the nearest integer, ties to even.
RoundHalfEven(n, d) ==
    LET q == n \div d
        r == n % d
    IN  IF 2 * r < d THEN q
        ELSE IF 2 * r > d THEN q + 1
        ELSE IF q % 2 = 0 THEN q ELSE q + 1

\* round(size / 1024, 2), in hundredths of a kilobyte
PoidsKo(size) == RoundHalfEven(size * 100, 1024)

(***************************************************************************)
(* scrape_arretes                                                          *)
(***************************************************************************)

\* The decrees the site lists, and the fields extract_arrete_info gives them.
RecIds == {"a", "b"}

RecordOf(id) ==
    IF id = "a"
      THEN [numero_arrete |-> "2024-001", date_publication |-> "12/01/2024",
            pdf_url |-> [host |-> "h1", path |-> "/x.pdf"], file_hash |-> "hash_a"]
      ELSE [numero_arrete |-> "", date_publication |-> "12/01/2024",
            pdf_url |-> [host |-> "h1", path |-> "/doc"], file_hash |-> "hash_b"]

\* The pages the listing has at most.
MaxListingPages == 2

\* A record of all_arretes: the decree, and the two fields the archival loop adds.
NewRecord(id) == [id |-> id, pdf_s3_url |-> Absent, poids_pdf_ko |-> 0]

\* What extract_arretes_from_page may return for one page.
PageResults == { <<>>, <<"a">>, <<"b">> }

NewRecords(ids) == [i \in DOMAIN ids |-> NewRecord(ids[i])]

\* The row save_to_csv gets for a record; date_scrape is the time of the run.
LedgerRow(rec, scrape_time) ==
    [numero_arrete |-> RecordOf(rec.id).numero_arrete,
     date_publication |-> RecordOf(rec.id).date_publication,
     date_scrape |-> scrape_time]

LedgerRows(arretes, scrape_time) ==
    [i \in DOMAIN arretes |-> LedgerRow(arretes[i], scrape_time)]

\* if MAX_PAGES > 0 and page_num >= MAX_PAGES: break
PageLimitReachedLate(max_pages, n) == max_pages > 0 /\ n > max_pages
PageLimitReached(max_pages, n) == max_pages > 0 /\ n >= max_pages

\* all_arretes after the extraction of one page: extended by what was
\* extracted, left as it is when the extraction raised.
AfterExtractionReset(arretes, raised, ids) ==
    IF raised THEN <<>> ELSE arretes \o NewRecords(ids)
AfterExtraction(arretes, raised, ids) ==
    IF raised THEN arretes ELSE arretes \o NewRecords(ids)

\* What the archival loop did for a record: whether and how often it called
\* download_pdf, whether the call met a timeout or a connection error,
\* whether it gave a file, what upload_pdf_to_s3 returned, and whether
\* s3_client.upload_file was called.
NoLog ==
    [invoked |-> FALSE, attempts |-> 0, transient |-> FALSE, downloaded |-> FALSE,
     upload |-> "none", storage_call |-> FALSE]

Log(transient, downloaded, upload, storage_call) ==
    [invoked |-> TRUE, attempts |-> 1, transient |-> transient, downloaded |-> downloaded,
     upload |-> upload, storage_call |-> storage_call]

\* The key scrape_arretes stores a record under.
ScrapeKey(id) ==
    S3Key(CurrentYear, PdfFilename(RecordOf(id).numero_arrete, RecordOf(id).file_hash))

\* The body of the archival loop for one record with a pdf_url: the record
\* after it, whether the local file is left behind, and whether the object
\* was stored.
ArchiveOne(rec, dry_run, resps, outcome) ==
    LET dl == download_pdf(RecordOf(rec.id).pdf_url, None, resps)
        up == upload_pdf_to_s3(dry_run, outcome)
        failed == [rec EXCEPT !.pdf_s3_url = ErrorSentinel("PDF non telecharge")]
        transient == EndedBy(RecordOf(rec.id).pdf_url, 0, resps).fault
                         \in {"Timeout", "ConnectionError"}
    IN  IF dl.pc = "raised" THEN
            [rec |-> failed, file_left |-> FALSE, stored |-> FALSE,
             log |-> Log(transient, FALSE, "none", FALSE)]
        ELSE IF ~dl.result THEN
            [rec |-> failed, file_left |-> FALSE, stored |-> FALSE,
             log |-> Log(transient, FALSE, "none", FALSE)]
        ELSE IF up.ret = "raise" THEN
            [rec |-> failed, file_left |-> TRUE, stored |-> FALSE,
             log |-> Log(transient, TRUE, "raise", ~dry_run)]
        ELSE IF up.ret = "url" THEN
            [rec |-> [rec EXCEPT !.pdf_s3_url = S3Url(ScrapeKey(rec.id)),
                                 !.poids_pdf_ko = PoidsKo(Len(dl.written.bytes))],
             file_left |-> FALSE, stored |-> up.stored,
             log |-> Log(transient, TRUE, "url", ~dry_run)]
        ELSE
            [rec |-> rec, file_left |-> FALSE, stored |-> FALSE,
             log |-> Log(transient, TRUE, "None", ~dry_run)]

\* The ledger an earlier run of the script, at time t, may have left.
EarlierLedgers(t) ==
    { [exists |-> TRUE, rows |-> to_csv(LedgerRows(NewRecords(ids), t))] :
        ids \in PageResults \ {<<>>} }

\* The state in which the script is started: the environment, the objects
\* earlier runs have uploaded to the bucket, and the ledger they have left.
ScrapeInit ==
    /\ bucket \in SUBSET {ScrapeKey(id) : id \in RecIds}
    /\ run = MaxScrapes
    /\ csv_file \in {NoCsv} \cup UNION {EarlierLedgers(t) : t \in 1..(run - 1)}
    /\ env_dry_run \in BOOLEAN
    /\ credentials \in BOOLEAN
    /\ DRY_RUN = FALSE
    /\ s3_client = None
    /\ MAX_PAGES \in 0..MaxListingPages
    /\ sc_pc = "start"
    /\ page_num = 0
    /\ all_arretes = <<>>
    /\ arch_i = 0
    /\ local_files = {}
    /\ returned = <<>>
    /\ extracted = <<>>
    /\ fault_pages = {}
    /\ searched_at = {}
    /\ pages_extracted = 0
    /\ archive_log = <<>>
    /\ archived_before = {}
    /\ saved = <<>>
    /\ rs_DRY_RUN = FALSE
    /\ rs_pc = "idle"
    /\ rs_df = <<>>
    /\ to_process = {}
    /\ rs_i = 0
    /\ rs_csv = <<>>
    /\ rs_local_files = {}
    /\ rs_log = <<>>
    /\ resources = [r \in Resources |-> "None"]
    /\ closing_faults = {}
    /\ close_called = {}
    /\ decree_divs = <<>>
    /\ loose_anchors = {}
    /\ ex_pc = "idle"
    /\ div_i = 0
    /\ arretes_elements = <<>>
    /\ seen_hrefs = {}
    /\ elem_i = 0
    /\ page_arretes = <<>>
    /\ ex_outcomes = <<>>
    /\ extractions = <<>>
    /\ file_hashes = <<>>
    /\ adv_pc = "idle"
    /\ attempt = 0
    /\ adv_file = NoFile
    /\ adv_result = FALSE
    /\ adv_chunks = <<>>
    /\ adv_written = <<>>
    /\ adv_end = "none"
    /\ arretes_csv = NoCsv
    /\ circulation_csv = NoCsv
    /\ n_saves = 0
    /\ next_controls = <<>>
    \* the other components stay idle
    /\ pdf_url = NoRef
    /\ dl_pc = "idle"
    /\ current_url = NoRef
    /\ redirect_count = 0
    /\ dl_result = FALSE
    /\ output_file = NoFile
    /\ bootstrap_failed = FALSE
    /\ gets = 0
    /\ last_response = NoResponse
    /\ loop_fault = FALSE
    /\ only_redirects = TRUE
    /\ first_page = NoPage
    /\ last_arretes = <<>>
    /\ rows_before = 0
    /\ repeated = FALSE
    /\ latest = <<>>

\* s3_client: None, and get_s3_client() only when DRY_RUN is false; that
\* call gives None without credentials.
S3ClientWhatever(dry, creds) == IF creds THEN "client" ELSE None
S3ClientFor(dry, creds) == IF ~dry /\ creds THEN "client" ELSE None

\* The module is loaded and scrape_arretes is called: DRY_RUN is read from
\* the environment; without it the S3 client is asked for, and dry run is
\* forced when the configuration is incomplete.
StartRunNotForced ==
    /\ sc_pc = "start"
    /\ LET dry == env_dry_run
           client == S3ClientFor(dry, credentials)
       IN  /\ s3_client' = client
           /\ DRY_RUN' = dry
    /\ all_arretes' = <<>>
    /\ sc_pc' = "launch"
    /\ page_num' = 0
    /\ arch_i' = 0
    /\ returned' = <<>>
    /\ extracted' = <<>>
    /\ fault_pages' = {}
    /\ searched_at' = {}
    /\ pages_extracted' = 0
    /\ archive_log' = <<>>
    /\ archived_before' = bucket
    /\ saved' = <<>>
    /\ UNCHANGED <<run, env_dry_run, credentials, MAX_PAGES, local_files, bucket>>
    /\ UNCHANGED <<dl_vars, ledger_vars, rescrape_vars, browser_vars>>
    /\ UNCHANGED extract_vars
    /\ UNCHANGED hash_vars
    /\ UNCHANGED adv_vars
    /\ UNCHANGED files_vars
    /\ UNCHANGED pagination_vars
StartRun ==
    /\ sc_pc = "start"
    /\ LET dry == env_dry_run
           client == S3ClientFor(dry, credentials)
       IN  /\ s3_client' = client
           /\ DRY_RUN' = (dry \/ (~dry /\ client = None))
    /\ all_arretes' = <<>>
    /\ sc_pc' = "launch"
    /\ page_num' = 0
    /\ arch_i' = 0
    /\ returned' = <<>>
    /\ extracted' = <<>>
    /\ fault_pages' = {}
    /\ searched_at' = {}
    /\ pages_extracted' = 0
    /\ archive_log' = <<>>
    /\ archived_before' = bucket
    /\ saved' = <<>>
    /\ UNCHANGED <<run, env_dry_run, credentials, MAX_PAGES, local_files, bucket>>
    /\ UNCHANGED <<dl_vars, ledger_vars, rescrape_vars, browser_vars>>
    /\ UNCHANGED extract_vars
    /\ UNCHANGED hash_vars
    /\ UNCHANGED adv_vars
    /\ UNCHANGED files_vars
    /\ UNCHANGED pagination_vars

\* What may happen between sync_playwright().start() and the first page
\* being ready: Playwright does not start; no browser can be launched;
\* new_context or new_page raises; page.goto raises (a timeout after which
\* page.content() raises too, or another exception); all of it works (with
\* a timeout after which the content can be read counted as working).
LaunchOutcomes ==
    {"start_fails", "launch_fails", "context_fails", "page_fails", "goto_fails", "ok"}

\* The resources an outcome has created.
Created(outcome) ==
    IF outcome = "start_fails" THEN {}
    ELSE IF outcome = "launch_fails" THEN {"playwright_instance"}
    ELSE IF outcome = "context_fails" THEN {"playwright_instance", "browser"}
    ELSE IF outcome = "page_fails" THEN {"playwright_instance", "browser", "context"}
    ELSE Resources

Opened(names) == [r \in Resources |-> IF r \in names THEN "open" ELSE "None"]

\* The block up to the pagination loop: the resources after it and where
\* control goes: "extract" (the loop), "close_return" (a return, through
\* finally) or "close" (the exception reached the outer except: finally,
\* then the archival phase). The handler of a context or page failure calls
\* browser.close() and playwright_instance.stop() itself, outside any try.
AfterLaunch(outcome, faults) ==
    LET res == Opened(Created(outcome))
    IN  IF outcome = "ok" THEN [resources |-> res, pc |-> "extract"]
        ELSE IF outcome = "start_fails" THEN [resources |-> res, pc |-> "close"]
        ELSE IF outcome = "launch_fails" THEN [resources |-> res, pc |-> "close"]
        ELSE IF outcome = "goto_fails" THEN [resources |-> res, pc |-> "close_return"]
        ELSE IF "browser" \in faults THEN [resources |-> res, pc |-> "close"]
        ELSE IF "playwright_instance" \in faults
          THEN [resources |-> [res EXCEPT !["browser"] = "closed"], pc |-> "close"]
        ELSE [resources |-> [res EXCEPT !["browser"] = "closed",
                                        !["playwright_instance"] = "closed"],
              pc |-> "close_return"]

\* The finally block: page.close(), context.close(), browser.close(),
\* playwright_instance.stop(), each behind "if <resource>:" and in a try of
\* its own whose except passes.
FinallyCloseAbort(res, faults) ==
    [r \in Resources |->
        IF res[r] = "None" THEN "None"
        ELSE IF \E q \in Resources : /\ CloseRank(q) <= CloseRank(r)
                                     /\ res[q] # "None"
                                     /\ q \in faults
          THEN res[r]
        ELSE "closed"]
FinallyClose(res, faults) ==
    [r \in Resources |->
        IF res[r] = "None" THEN "None"
        ELSE IF r \in faults THEN res[r]
        ELSE "closed"]

\* Playwright is started, the browser launched, the context and the page
\* created and the first page loaded.
Launch ==
    /\ sc_pc = "launch"
    /\ \E outcome \in LaunchOutcomes :
        LET after == AfterLaunch(outcome, closing_faults)
        IN  /\ resources' = after.resources
            /\ sc_pc' = after.pc
            /\ page_num' = IF outcome = "ok" THEN 1 ELSE page_num
    /\ UNCHANGED <<run, env_dry_run, credentials, DRY_RUN, s3_client, MAX_PAGES,
                   all_arretes, arch_i, local_files, returned, extracted, fault_pages,
                   searched_at, pages_extracted, archive_log, archived_before, saved, bucket>>
    /\ UNCHANGED <<closing_faults, close_called>>
    /\ UNCHANGED <<dl_vars, ledger_vars, rescrape_vars>>
    /\ UNCHANGED extract_vars
    /\ UNCHANGED hash_vars
    /\ UNCHANGED adv_vars
    /\ UNCHANGED files_vars
    /\ UNCHANGED pagination_vars

\* One pass of the pagination loop up to the page ceiling: the page is
\* checked, extracted (an exception is logged and the page checked again),
\* and the ceiling is compared with page_num.
ExtractPage ==
    /\ sc_pc = "extract"
    /\ \E closed \in BOOLEAN, raised \in BOOLEAN, closed_after \in BOOLEAN, ids \in PageResults :
        IF closed THEN
            /\ sc_pc' = "close"
            /\ UNCHANGED <<all_arretes, extracted, fault_pages, pages_extracted>>
        ELSE
            /\ all_arretes' = AfterExtraction(all_arretes, raised, ids)
            /\ extracted' = IF raised THEN extracted ELSE extracted \o ids
            /\ pages_extracted' = pages_extracted + 1
            /\ fault_pages' = IF raised THEN fault_pages \cup {page_num} ELSE fault_pages
            /\ sc_pc' = IF raised /\ closed_after THEN "close"
                        ELSE IF PageLimitReached(MAX_PAGES, page_num) THEN "close"
                        ELSE "advance"
    /\ UNCHANGED <<run, env_dry_run, credentials, DRY_RUN, s3_client, MAX_PAGES, page_num,
                   arch_i, local_files, returned, searched_at, archive_log,
                   archived_before, saved, bucket>>
    /\ UNCHANGED <<dl_vars, ledger_vars, rescrape_vars, browser_vars>>
    /\ UNCHANGED extract_vars
    /\ UNCHANGED hash_vars
    /\ UNCHANGED adv_vars
    /\ UNCHANGED files_vars
    /\ UNCHANGED pagination_vars

\* The rest of the pass: the next-page control is looked for (a button,
\* else a link in the HTML) and followed; a closed page, no control, or an
\* exception ends the pagination.
Advance ==
    /\ sc_pc = "advance"
    /\ \E found \in {"closed", "button", "link", "none", "raise"} :
        /\ found \in {"button", "link"} => page_num < MaxListingPages
        /\ searched_at' = IF found = "closed" THEN searched_at ELSE searched_at \cup {page_num}
        /\ fault_pages' = IF found = "raise" THEN fault_pages \cup {page_num} ELSE fault_pages
        /\ IF found \in {"button", "link"}
             THEN /\ page_num' = page_num + 1
                  /\ sc_pc' = "extract"
             ELSE /\ page_num' = page_num
                  /\ sc_pc' = "close"
    /\ UNCHANGED <<run, env_dry_run, credentials, DRY_RUN, s3_client, MAX_PAGES,
                   all_arretes, arch_i, local_files, returned, extracted,
                   pages_extracted, archive_log, archived_before, saved, bucket>>
    /\ UNCHANGED <<dl_vars, ledger_vars, rescrape_vars, browser_vars>>
    /\ UNCHANGED extract_vars
    /\ UNCHANGED hash_vars
    /\ UNCHANGED adv_vars
    /\ UNCHANGED files_vars
    /\ UNCHANGED pagination_vars

\* finally: the page, the context, the browser and Playwright are closed;
\* then the function returns when a return statement led here, and else the
\* archival loop starts when there is an S3 client.
CloseBrowser ==
    /\ sc_pc \in {"close", "close_return"}
    /\ resources' = FinallyClose(resources, closing_faults)
    /\ close_called' = {r \in Resources : resources[r] # "None"}
    /\ sc_pc' = IF sc_pc = "close_return" THEN "returned"
                ELSE IF s3_client # None THEN "archive" ELSE "save"
    /\ returned' = IF sc_pc = "close_return" THEN all_arretes ELSE returned
    /\ arch_i' = 1
    /\ archive_log' = [i \in DOMAIN all_arretes |-> NoLog]
    /\ UNCHANGED <<run, env_dry_run, credentials, DRY_RUN, s3_client, MAX_PAGES, page_num,
                   all_arretes, local_files, extracted, fault_pages,
                   searched_at, pages_extracted, archived_before, saved, bucket>>
    /\ UNCHANGED closing_faults
    /\ UNCHANGED <<dl_vars, ledger_vars, rescrape_vars>>
    /\ UNCHANGED extract_vars
    /\ UNCHANGED hash_vars
    /\ UNCHANGED adv_vars
    /\ UNCHANGED files_vars
    /\ UNCHANGED pagination_vars

\* The index the loop goes on with after the body or its except clause has
\* handled record i of n: the clause sets the sentinel and ends the iteration.
AfterRecordBreak(i, failed, n) == IF failed THEN n + 1 ELSE i + 1
AfterRecord(i, failed, n) == i + 1

\* for arrete in all_arretes: the body of the loop for the next record.
ArchiveRecord ==
    /\ sc_pc = "archive"
    /\ arch_i <= Len(all_arretes)
    /\ \E resps \in Scenarios, outcome \in UploadOutcomes :
        LET rec == all_arretes[arch_i]
            out == ArchiveOne(rec, DRY_RUN, resps, outcome)
            name == PdfFilename(RecordOf(rec.id).numero_arrete, RecordOf(rec.id).file_hash)
        IN  /\ all_arretes' = [all_arretes EXCEPT ![arch_i] = out.rec]
            /\ local_files' = IF out.file_left THEN local_files \cup {name}
                              ELSE local_files \ {name}
            /\ bucket' = IF out.stored THEN bucket \cup {ScrapeKey(rec.id)} ELSE bucket
            /\ archive_log' = [archive_log EXCEPT ![arch_i] = out.log]
            /\ arch_i' = AfterRecord(arch_i, out.rec.pdf_s3_url.kind = "error",
                                     Len(all_arretes))
    /\ UNCHANGED <<run, env_dry_run, credentials, DRY_RUN, s3_client, MAX_PAGES, sc_pc,
                   page_num, returned, extracted, fault_pages, searched_at,
                   pages_extracted, archived_before, saved>>
    /\ UNCHANGED <<dl_vars, ledger_vars, rescrape_vars, browser_vars>>
    /\ UNCHANGED extract_vars
    /\ UNCHANGED hash_vars
    /\ UNCHANGED adv_vars
    /\ UNCHANGED files_vars
    /\ UNCHANGED pagination_vars

\* The archival loop is over.
ArchiveDone ==
    /\ sc_pc = "archive"
    /\ arch_i > Len(all_arretes)
    /\ sc_pc' = "save"
    /\ UNCHANGED <<run, env_dry_run, credentials, DRY_RUN, s3_client, MAX_PAGES, page_num,
                   all_arretes, arch_i, local_files, returned, extracted, fault_pages,
                   searched_at, pages_extracted, archive_log, archived_before, saved, bucket>>
    /\ UNCHANGED <<dl_vars, ledger_vars, rescrape_vars, browser_vars>>
    /\ UNCHANGED extract_vars
    /\ UNCHANGED hash_vars
    /\ UNCHANGED adv_vars
    /\ UNCHANGED files_vars
    /\ UNCHANGED pagination_vars

\* save_to_csv(all_arretes), the statistics, return all_arretes.
SaveAndReturn ==
    /\ sc_pc = "save"
    /\ saved' = all_arretes
    /\ csv_file' = IF all_arretes = <<>> THEN csv_file
                   ELSE MergeLedger(csv_file, LedgerRows(all_arretes, run))
    /\ returned' = all_arretes
    /\ sc_pc' = "returned"
    /\ UNCHANGED <<run, env_dry_run, credentials, DRY_RUN, s3_client, MAX_PAGES, page_num,
                   all_arretes, arch_i, local_files, extracted, fault_pages,
                   searched_at, pages_extracted, archive_log, archived_before, bucket>>
    /\ UNCHANGED <<dl_vars, ledger_hist, rescrape_vars, browser_vars>>
    /\ UNCHANGED extract_vars
    /\ UNCHANGED hash_vars
    /\ UNCHANGED adv_vars
    /\ UNCHANGED files_vars
    /\ UNCHANGED pagination_vars

ScrapeNext ==
    \/ StartRun
    \/ Launch
    \/ ExtractPage
    \/ Advance
    \/ CloseBrowser
    \/ ArchiveRecord
    \/ ArchiveDone
    \/ SaveAndReturn

SpecScrape == ScrapeInit /\ [][ScrapeNext]_vars

\* A first run of the script, without ledger and with an empty bucket, in
\* which the close() calls of some of the resources raise.
BrowserInit ==
    /\ bucket = {}
    /\ run = MaxScrapes
    /\ csv_file = NoCsv
    /\ env_dry_run = FALSE
    /\ credentials \in BOOLEAN
    /\ DRY_RUN = FALSE
    /\ s3_client = None
    /\ MAX_PAGES \in 0..MaxListingPages
    /\ sc_pc = "start"
    /\ page_num = 0
    /\ all_arretes = <<>>
    /\ arch_i = 0
    /\ local_files = {}
    /\ returned = <<>>
    /\ extracted = <<>>
    /\ fault_pages = {}
    /\ searched_at = {}
    /\ pages_extracted = 0
    /\ archive_log = <<>>
    /\ archived_before = {}
    /\ saved = <<>>
    /\ rs_DRY_RUN = FALSE
    /\ rs_pc = "idle"
    /\ rs_df = <<>>
    /\ to_process = {}
    /\ rs_i = 0
    /\ rs_csv = <<>>
    /\ rs_local_files = {}
    /\ rs_log = <<>>
    /\ resources = [r \in Resources |-> "None"]
    /\ closing_faults \in SUBSET Resources
    /\ close_called = {}
    /\ decree_divs = <<>>
    /\ loose_anchors = {}
    /\ ex_pc = "idle"
    /\ div_i = 0
    /\ arretes_elements = <<>>
    /\ seen_hrefs = {}
    /\ elem_i = 0
    /\ page_arretes = <<>>
    /\ ex_outcomes = <<>>
    /\ extractions = <<>>
    /\ file_hashes = <<>>
    /\ adv_pc = "idle"
    /\ attempt = 0
    /\ adv_file = NoFile
    /\ adv_result = FALSE
    /\ adv_chunks = <<>>
    /\ adv_written = <<>>
    /\ adv_end = "none"
    /\ arretes_csv = NoCsv
    /\ circulation_csv = NoCsv
    /\ n_saves = 0
    /\ next_controls = <<>>
    \* the other components stay idle
    /\ pdf_url = NoRef
    /\ dl_pc = "idle"
    /\ current_url = NoRef
    /\ redirect_count = 0
    /\ dl_result = FALSE
    /\ output_file = NoFile
    /\ bootstrap_failed = FALSE
    /\ gets = 0
    /\ last_response = NoResponse
    /\ loop_fault = FALSE
    /\ only_redirects = TRUE
    /\ first_page = NoPage
    /\ last_arretes = <<>>
    /\ rows_before = 0
    /\ repeated = FALSE
    /\ latest = <<>>

SpecBrowser == BrowserInit /\ [][ScrapeNext]_vars

(***************************************************************************)
(* process_csv (src/rescrape_missing_s3.py)                                *)
(***************************************************************************)

\* The rows a call handles at most.
MaxRows == 2

\* ContentLength of the objects of the bucket, in bytes.
Sizes == {0, 100, 1024}

\* str(value): the text of a float NaN is 'nan'.
Str(value) == IF value = NaN THEN "nan" ELSE value

\* text.strip(), on the cells of the model: " " is the one that has whitespace.
Strip(text) == IF text = " " THEN "" ELSE text

\* int(re.search(r'(\d{4})', date_publication).group(1)), 0 when the text
\* has no run of four digits.
FourDigits(text) == IF text = "12/01/2024" THEN 2024 ELSE 0

\* The address a pdf_url cell holds; NoRef when the text has no scheme, and
\* requests then raises MissingSchema (a RequestException) on every get.
UrlOf(text) ==
    IF text = "http://h1/x.pdf" THEN [host |-> "h1", path |-> "/x.pdf"] ELSE NoRef

\* A pdf_s3_url cell of a DataFrame that read_csv filled from an empty cell.
NaNUrl == [kind |-> "nan", key |-> NoKey, text |-> ""]

\* The rows of data/arretes_circulation.csv, as text; poids_pdf_ko is in
\* hundredths of a kilobyte, -1 for an empty cell.
CsvRow(numero, file_hash, url, date, s3, poids) ==
    [numero_arrete |-> numero, file_hash |-> file_hash, pdf_url |-> url,
     date_publication |-> date, pdf_s3_url |-> s3, poids_pdf_ko |-> poids]

ArchivedKey == S3Key(2024, PdfFilename("2024-001", "hash_a"))

CsvRows ==
    { CsvRow("2024-001", "hash_a", "http://h1/x.pdf", "12/01/2024", Absent, -1),
      CsvRow("", "hash_b", "http://h1/x.pdf", "", Absent, -1),
      CsvRow(" ", "hash_a", "http://h1/x.pdf", "12/01/2024", Absent, -1),
      CsvRow("2024-001", "hash_a", "http://h1/x.pdf", "12/01/2024", S3Url(ArchivedKey), 10),
      CsvRow("2024-001", "hash_a", "http://h1/x.pdf", "12/01/2024",
             ErrorSentinel("PDF non telecharge"), -1),
      CsvRow("2024-001", "00123456", "http://h1/x.pdf", "12/01/2024", Absent, -1),
      CsvRow("2024-001", "00123456", "http://h1/x.pdf", "12/01/2024", S3Url(ArchivedKey), 10) }

CsvFiles == SeqsUpTo(CsvRows, MaxRows)

\* pd.read_csv, row by row: an empty cell is read as NaN.
ReadCsvRow(r) ==
    [numero_arrete |-> ReadCell(r.numero_arrete), file_hash |-> ReadCell(r.file_hash),
     pdf_url |-> ReadCell(r.pdf_url), date_publication |-> ReadCell(r.date_publication),
     pdf_s3_url |-> IF r.pdf_s3_url = Absent THEN NaNUrl ELSE r.pdf_s3_url,
     poids_pdf_ko |-> r.poids_pdf_ko]

\* df.to_csv, row by row: NaN is written as an empty cell.
WriteCsvRow(r) ==
    [numero_arrete |-> WriteCell(r.numero_arrete), file_hash |-> WriteCell(r.file_hash),
     pdf_url |-> WriteCell(r.pdf_url), date_publication |-> WriteCell(r.date_publication),
     pdf_s3_url |-> IF r.pdf_s3_url = NaNUrl THEN Absent ELSE r.pdf_s3_url,
     poids_pdf_ko |-> r.poids_pdf_ko]

\* A file_hash made of digits only, and the text of the integer read_csv
\* parses it to.
IsDigits(text) == text = "00123456"
ParseInt(text) == IF text = "00123456" THEN "123456" ELSE text

\* pd.read_csv(csv_path): the rows, and the type inferred for a column: one
\* whose cells are all digits is read as integers, and its texts are lost.
ReadCsvFile(rows) ==
    LET numeric == rows # <<>> /\ \A i \in DOMAIN rows : IsDigits(rows[i].file_hash)
    IN  [i \in DOMAIN rows |->
            [ReadCsvRow(rows[i]) EXCEPT !.file_hash = IF numeric THEN ParseInt(@) ELSE @]]

\* mask: the cell is NaN, or blank, or the text 'nan'
MaskWithErrors(cell) == cell.kind \in {"nan", "absent", "error"}
Mask(cell) == cell.kind = "nan" \/ cell.kind = "absent"

\* annee: the first run of four digits of date_publication when it has one,
\* else datetime.now().year
Annee(date_publication) ==
    IF date_publication # "" /\ FourDigits(date_publication) # 0
      THEN FourDigits(date_publication) ELSE CurrentYear

\* The key process_csv derives for a row of the DataFrame.
RescrapeKey(row) ==
    S3Key(Annee(Strip(Str(row.date_publication))),
          PdfFilename(Strip(Str(row.numero_arrete)), Strip(Str(row.file_hash))))

\* What s3_client.head_object may answer for a key.
HeadOutcomes(key) ==
    (IF key \in bucket THEN {[code |-> "200", size |-> n] : n \in Sizes}
                       ELSE {[code |-> "404", size |-> 0]})
    \cup {[code |-> "403", size |-> 0], [code |-> "OtherException", size |-> 0]}

\* check_s3_file_exists(s3_client, s3_key): None in DRY_RUN without a query,
\* {'size': ContentLength} when head_object answers, None on a ClientError;
\* another exception is not caught.
check_s3_file_exists(dry_run, head) ==
    IF dry_run THEN [ret |-> "None", size |-> 0, queried |-> FALSE]
    ELSE IF head.code = "200" THEN [ret |-> "info", size |-> head.size, queried |-> TRUE]
    ELSE IF head.code = "OtherException" THEN [ret |-> "raise", size |-> 0, queried |-> TRUE]
    ELSE [ret |-> "None", size |-> 0, queried |-> TRUE]

\* poids_ko = round(s3_file_info['size'] / 1024, 2)
AdoptedPoidsTruncated(size) == (size * 100) \div 1024
AdoptedPoids(size) == PoidsKo(size)

NoRowLog ==
    [iterated |-> FALSE, skipped |-> FALSE, key |-> NoKey, present |-> FALSE, size |-> 0,
     invoked |-> FALSE, upload_called |-> FALSE]

\* The body of the loop for one row of rows_to_process: the two cells it
\* sets, the local file it leaves behind, whether the object was stored, and
\* what it asked of storage and of the Downloader.
ProcessOne(row, dry_run, head, resps, outcome) ==
    LET numero_arrete == Strip(Str(row.numero_arrete))
        file_hash == Strip(Str(row.file_hash))
        url_text == Strip(Str(row.pdf_url))
        s3_key == RescrapeKey(row)
        s3_file_info == check_s3_file_exists(dry_run, head)
        dl == download_pdf(UrlOf(url_text), None,
                           IF UrlOf(url_text) = NoRef THEN <<FaultResponse("ConnectionError")>>
                                                     ELSE resps)
        up == upload_pdf_to_s3(dry_run, outcome)
        log == [NoRowLog EXCEPT !.iterated = TRUE]
        asked == [log EXCEPT !.key = s3_key]
        fetched == [asked EXCEPT !.invoked = TRUE]
        sent == [fetched EXCEPT !.upload_called = TRUE]
        Out(url, poids, left, stored, l) ==
            [pdf_s3_url |-> url, poids_pdf_ko |-> poids, file_left |-> left,
             stored |-> stored, log |-> l]
    IN  IF numero_arrete = "" \/ file_hash = "" \/ url_text = "" THEN
            Out(row.pdf_s3_url, row.poids_pdf_ko, FALSE, FALSE, [log EXCEPT !.skipped = TRUE])
        ELSE IF s3_file_info.ret = "raise" THEN
            Out(ErrorSentinel("exception"), row.poids_pdf_ko, FALSE, FALSE, asked)
        ELSE IF s3_file_info.ret = "info" THEN
            Out(S3Url(s3_key), AdoptedPoids(s3_file_info.size), FALSE, FALSE,
                [asked EXCEPT !.present = TRUE, !.size = s3_file_info.size])
        ELSE IF dl.pc = "raised" THEN
            Out(ErrorSentinel("exception"), row.poids_pdf_ko, FALSE, FALSE, fetched)
        ELSE IF ~dl.result THEN
            Out(ErrorSentinel("PDF non telecharge"), row.poids_pdf_ko, FALSE, FALSE, fetched)
        ELSE IF up.ret = "raise" THEN
            Out(ErrorSentinel("exception"), row.poids_pdf_ko, TRUE, FALSE, sent)
        ELSE IF up.ret = "url" THEN
            Out(S3Url(s3_key), PoidsKo(Len(dl.written.bytes)), FALSE, up.stored, sent)
        ELSE
            Out(ErrorSentinel("Upload S3 echoue"), row.poids_pdf_ko, FALSE, FALSE, sent)

\* The state in which process_csv is called: the flag, the CSV file, the
\* objects of the bucket.
RescrapeInit ==
    /\ rs_DRY_RUN \in BOOLEAN
    /\ rs_csv \in CsvFiles
    /\ bucket \in SUBSET {ArchivedKey, S3Key(CurrentYear, PdfFilename("nan", "hash_b"))}
    /\ rs_pc = "start"
    /\ rs_df = <<>>
    /\ to_process = {}
    /\ rs_i = 0
    /\ rs_local_files = {}
    /\ rs_log = <<>>
    /\ resources = [r \in Resources |-> "None"]
    /\ closing_faults = {}
    /\ close_called = {}
    /\ decree_divs = <<>>
    /\ loose_anchors = {}
    /\ ex_pc = "idle"
    /\ div_i = 0
    /\ arretes_elements = <<>>
    /\ seen_hrefs = {}
    /\ elem_i = 0
    /\ page_arretes = <<>>
    /\ ex_outcomes = <<>>
    /\ extractions = <<>>
    /\ file_hashes = <<>>
    /\ adv_pc = "idle"
    /\ attempt = 0
    /\ adv_file = NoFile
    /\ adv_result = FALSE
    /\ adv_chunks = <<>>
    /\ adv_written = <<>>
    /\ adv_end = "none"
    /\ arretes_csv = NoCsv
    /\ circulation_csv = NoCsv
    /\ n_saves = 0
    /\ next_controls = <<>>
    /\ pdf_url = NoRef
    /\ dl_pc = "idle"
    /\ current_url = NoRef
    /\ redirect_count = 0
    /\ dl_result = FALSE
    /\ output_file = NoFile
    /\ bootstrap_failed = FALSE
    /\ gets = 0
    /\ last_response = NoResponse
    /\ loop_fault = FALSE
    /\ only_redirects = TRUE
    /\ first_page = NoPage
    /\ csv_file = NoCsv
    /\ last_arretes = <<>>
    /\ rows_before = 0
    /\ repeated = FALSE
    /\ latest = <<>>
    /\ run = 0
    /\ env_dry_run = FALSE
    /\ credentials = FALSE
    /\ DRY_RUN = FALSE
    /\ s3_client = None
    /\ MAX_PAGES = 0
    /\ sc_pc = "idle"
    /\ page_num = 0
    /\ all_arretes = <<>>
    /\ arch_i = 0
    /\ local_files = {}
    /\ returned = <<>>
    /\ extracted = <<>>
    /\ fault_pages = {}
    /\ searched_at = {}
    /\ pages_extracted = 0
    /\ archive_log = <<>>
    /\ archived_before = {}
    /\ saved = <<>>

\* df = pd.read_csv(csv_path), the mask, rows_to_process; the call returns
\* at once when no row is to be processed.
ReadCsv ==
    /\ rs_pc = "start"
    /\ rs_df' = ReadCsvFile(rs_csv)
    /\ to_process' = {i \in DOMAIN rs_csv : Mask(ReadCsvFile(rs_csv)[i].pdf_s3_url)}
    /\ rs_log' = [i \in DOMAIN rs_csv |-> NoRowLog]
    /\ rs_pc' = IF to_process' = {} THEN "done" ELSE "loop"
    /\ UNCHANGED <<rs_DRY_RUN, rs_i, rs_csv, rs_local_files>>
    /\ UNCHANGED <<dl_vars, ledger_vars, bucket, scrape_vars, browser_vars>>
    /\ UNCHANGED extract_vars
    /\ UNCHANGED hash_vars
    /\ UNCHANGED adv_vars
    /\ UNCHANGED files_vars
    /\ UNCHANGED pagination_vars

\* One iteration of "for idx, row in rows_to_process.iterrows()".
ProcessRow ==
    /\ rs_pc = "loop"
    /\ \E idx \in to_process :
        /\ idx > rs_i
        /\ \A j \in to_process : j > rs_i => idx <= j
        /\ \E head \in HeadOutcomes(RescrapeKey(rs_df[idx])), resps \in Scenarios,
              outcome \in UploadOutcomes :
            LET out == ProcessOne(rs_df[idx], rs_DRY_RUN, head, resps, outcome)
            IN  /\ rs_df' = [rs_df EXCEPT ![idx].pdf_s3_url = out.pdf_s3_url,
                                          ![idx].poids_pdf_ko = out.poids_pdf_ko]
                /\ rs_log' = [rs_log EXCEPT ![idx] = out.log]
                /\ rs_local_files' = IF out.file_left
                                       THEN rs_local_files \cup {RescrapeKey(rs_df[idx])}
                                       ELSE rs_local_files
                /\ bucket' = IF out.stored THEN bucket \cup {RescrapeKey(rs_df[idx])}
                                           ELSE bucket
        /\ rs_i' = idx
    /\ UNCHANGED <<rs_DRY_RUN, rs_pc, to_process, rs_csv>>
    /\ UNCHANGED <<dl_vars, ledger_vars, scrape_vars, browser_vars>>
    /\ UNCHANGED extract_vars
    /\ UNCHANGED hash_vars
    /\ UNCHANGED adv_vars
    /\ UNCHANGED files_vars
    /\ UNCHANGED pagination_vars

\* df.to_csv(csv_path, index=False) once the loop is over.
WriteCsv ==
    /\ rs_pc = "loop"
    /\ \A j \in to_process : j <= rs_i
    /\ rs_csv' = [i \in DOMAIN rs_df |-> WriteCsvRow(rs_df[i])]
    /\ rs_pc' = "done"
    /\ UNCHANGED <<rs_DRY_RUN, rs_df, to_process, rs_i, rs_local_files, rs_log>>
    /\ UNCHANGED <<dl_vars, ledger_vars, bucket, scrape_vars, browser_vars>>
    /\ UNCHANGED extract_vars
    /\ UNCHANGED hash_vars
    /\ UNCHANGED adv_vars
    /\ UNCHANGED files_vars
    /\ UNCHANGED pagination_vars

RescrapeNext ==
    \/ ReadCsv
    \/ ProcessRow
    \/ WriteCsv

SpecRescrape == RescrapeInit /\ [][RescrapeNext]_vars

\* The two archival loops side by side: a run of the scraper, or a call of
\* process_csv.
ArchivalInit == ScrapeInit \/ RescrapeInit

ArchivalNext == ScrapeNext \/ RescrapeNext

SpecArchival == ArchivalInit /\ [][ArchivalNext]_vars

(***************************************************************************)
(* The pagination loop of scrape_arretes on a given listing                *)
(***************************************************************************)

\* What the search for the next-page control finds on a page: the button,
\* the link in the HTML, nothing, or an exception.
NextControls == {"button", "link", "none", "raise"}

\* The loop is entered on page 1 of a listing whose pages each show a
\* next-page control or not.  Page MaxListingPages + 1 stands for itself
\* and every later page of the listing.
PaginationInit ==
    /\ arretes_csv = NoCsv
    /\ circulation_csv = NoCsv
    /\ n_saves = 0
    /\ next_controls \in [1..(MaxListingPages + 1) -> NextControls]
    /\ csv_file = NoCsv
    /\ last_arretes = <<>>
    /\ rows_before = 0
    /\ repeated = FALSE
    /\ latest = <<>>
    /\ pdf_url = NoRef
    /\ dl_pc = "idle"
    /\ current_url = NoRef
    /\ redirect_count = 0
    /\ dl_result = FALSE
    /\ output_file = NoFile
    /\ bootstrap_failed = FALSE
    /\ gets = 0
    /\ last_response = NoResponse
    /\ loop_fault = FALSE
    /\ only_redirects = TRUE
    /\ first_page = NoPage
    /\ bucket = {}
    /\ run = 0
    /\ env_dry_run = FALSE
    /\ credentials = FALSE
    /\ DRY_RUN = FALSE
    /\ s3_client = None
    /\ MAX_PAGES \in 0..MaxListingPages
    /\ sc_pc = "extract"
    /\ page_num = 1
    /\ all_arretes = <<>>
    /\ arch_i = 0
    /\ local_files = {}
    /\ returned = <<>>
    /\ extracted = <<>>
    /\ fault_pages = {}
    /\ searched_at = {}
    /\ pages_extracted = 0
    /\ archive_log = <<>>
    /\ archived_before = {}
    /\ saved = <<>>
    /\ rs_DRY_RUN = FALSE
    /\ rs_pc = "idle"
    /\ rs_df = <<>>
    /\ to_process = {}
    /\ rs_i = 0
    /\ rs_csv = <<>>
    /\ rs_local_files = {}
    /\ rs_log = <<>>
    /\ resources = [r \in Resources |-> "None"]
    /\ closing_faults = {}
    /\ close_called = {}
    /\ decree_divs = <<>>
    /\ loose_anchors = {}
    /\ ex_pc = "idle"
    /\ div_i = 0
    /\ arretes_elements = <<>>
    /\ seen_hrefs = {}
    /\ elem_i = 0
    /\ page_arretes = <<>>
    /\ ex_outcomes = <<>>
    /\ extractions = <<>>
    /\ file_hashes = <<>>
    /\ adv_pc = "idle"
    /\ attempt = 0
    /\ adv_file = NoFile
    /\ adv_result = FALSE
    /\ adv_chunks = <<>>
    /\ adv_written = <<>>
    /\ adv_end = "none"

\* The pass up to the page ceiling: the page is checked, extracted (an
\* exception is logged and the page checked again), the ceiling compared.
PassExtract ==
    /\ sc_pc = "extract"
    /\ \E closed \in BOOLEAN, raised \in BOOLEAN, closed_after \in BOOLEAN :
        sc_pc' = IF closed THEN "close"
                 ELSE IF raised /\ closed_after THEN "close"
                 ELSE IF PageLimitReached(MAX_PAGES, page_num) THEN "close"
                 ELSE "advance"
    /\ UNCHANGED <<run, env_dry_run, credentials, DRY_RUN, s3_client, MAX_PAGES, page_num,
                   all_arretes, arch_i, local_files, returned, extracted, fault_pages,
                   searched_at, pages_extracted, archive_log, archived_before, saved, bucket>>
    /\ UNCHANGED <<dl_vars, ledger_vars, rescrape_vars, browser_vars>>
    /\ UNCHANGED <<extract_vars, hash_vars, adv_vars, files_vars, pagination_vars>>

\* The rest of the pass: the page may have been closed; else the control
\* the page shows is followed and page_num incremented, and without a
\* control, or on an exception of the search or of the load, the loop is
\* left.
PassAdvance ==
    /\ sc_pc = "advance"
    /\ \E closed \in BOOLEAN, load_raised \in BOOLEAN :
        IF ~closed /\ next_controls[page_num] \in {"button", "link"} /\ ~load_raised
          THEN /\ page_num' = IF page_num <= MaxListingPages THEN page_num + 1 ELSE page_num
               /\ sc_pc' = "extract"
          ELSE /\ page_num' = page_num
               /\ sc_pc' = "close"
    /\ UNCHANGED <<run, env_dry_run, credentials, DRY_RUN, s3_client, MAX_PAGES,
                   all_arretes, arch_i, local_files, returned, extracted, fault_pages,
                   searched_at, pages_extracted, archive_log, archived_before, saved, bucket>>
    /\ UNCHANGED <<dl_vars, ledger_vars, rescrape_vars, browser_vars>>
    /\ UNCHANGED <<extract_vars, hash_vars, adv_vars, files_vars, pagination_vars>>

PaginationNext == PassExtract \/ PassAdvance

\* Every call of the loop returns or times out, so a pass that can be made
\* is made.
SpecPagination ==
    PaginationInit /\ [][PaginationNext]_vars /\ WF_vars(PaginationNext)

(***************************************************************************)
(* extract_arretes_from_page, extract_arrete_info                          *)
(***************************************************************************)

\* BASE_URL, as a URL of the model.
BASE_URL == [host |-> "www.prefecturedepolice.interieur.gouv.fr", path |-> "/"]

\* The href attributes the anchors of a listing page carry: a PDF given by
\* its path, the same PDF given with scheme and host, another PDF, and a
\* page that is not a PDF.
RelA == [host |-> None, path |-> "/a.pdf"]
AbsA == [host |-> BASE_URL.host, path |-> "/a.pdf"]
RelB == [host |-> None, path |-> "/b.pdf"]
Detail == [host |-> None, path |-> "/detail"]

\* href.lower().endswith('.pdf'); re.compile(r'\.pdf$', re.I); '.pdf' in lien.lower()
EndsWithPdf(href) == href.path \in {"/a.pdf", "/b.pdf"}

\* if not lien.startswith('http'): lien = urljoin(BASE_URL, lien)
ResolveLien(href) ==
    IF href.host # None THEN href ELSE [host |-> BASE_URL.host, path |-> href.path]

\* The text of a div, as the sequence of its parts: the words "Arrêté n°",
\* a decree number, a date, and words without digit or full stop.
Marker == "Arrete n"
DecreeNumbers == {"2024-001", "2024-002"}
DateToken == "12/01/2024"
Words == "portant reglementation de la circulation"
UpperWords == "PORTANT REGLEMENTATION DE LA CIRCULATION"
OtherWords == "portant reglementation du stationnement"

\* The text of one decree, and of two decrees one after the other with the
\* date of the second between them.
BlockWith(n, words) == <<Marker, n, words>>
Block(n) == <<Marker, n, Words>>
TwoBlocks == Block("2024-001") \o <<DateToken>> \o Block("2024-002")
MixedBlocks == BlockWith("2024-001", OtherWords) \o <<DateToken>> \o Block("2024-002")

\* What a div holds: its text, without span or heading or date field,
\* whether the title found in it is longer than 200 characters, and whether
\* its text is longer than 300 characters.
Contents ==
    { [text |-> Block("2024-001"), long |-> FALSE, long_contenu |-> FALSE],
      [text |-> BlockWith("2024-002", OtherWords), long |-> FALSE, long_contenu |-> FALSE],
      [text |-> BlockWith("2024-001", UpperWords), long |-> FALSE, long_contenu |-> FALSE],
      [text |-> TwoBlocks, long |-> FALSE, long_contenu |-> FALSE],
      [text |-> MixedBlocks, long |-> TRUE, long_contenu |-> FALSE],
      [text |-> MixedBlocks, long |-> TRUE, long_contenu |-> TRUE] }

\* How a div is linked: the href of the <a> around it (NoRef without one),
\* and the hrefs of the <a> elements inside it, in document order.
Links ==
    { [parent |-> h, children |-> <<>>] : h \in {RelA, AbsA, Detail} }
        \cup { [parent |-> NoRef, children |-> c] :
                 c \in {<<>>, <<RelA>>, <<Detail, RelA>>, <<Detail, RelB>>} }

Elements ==
    { [parent |-> l.parent, children |-> l.children, text |-> c.text, long |-> c.long,
       long_contenu |-> c.long_contenu] :
        l \in Links, c \in Contents }

\* The number of decree divs on a page.
MaxDivs == 2

Pages == SeqsUpTo(Elements, MaxDivs)

\* The <a> elements a page may have outside its decree divs: none, or a
\* link to a PDF whose text names a decree.
LooseAnchors == {{}, {RelB}}

\* div.find('a', href=re.compile(r'\.pdf$', re.I)): the first <a> inside the
\* div whose href ends in .pdf
FirstPdfChild(children) ==
    LET hits == {i \in DOMAIN children : EndsWithPdf(children[i])}
    IN  IF hits = {} THEN NoRef
        ELSE children[CHOOSE k \in hits : \A j \in hits : k <= j]

\* element.find('a', href=True): the first <a> inside the div
FirstChild(children) == IF children = <<>> THEN NoRef ELSE children[1]

\* The href under which the selection loop looks a div up in seen_hrefs:
\* that of the parent <a>, or else of the first child <a> ending in .pdf.
SelectionHref(div) ==
    IF div.parent # NoRef THEN div.parent ELSE FirstPdfChild(div.children)

\* Whether the selection loop keeps the div.
Admitted(div, seen) ==
    IF div.parent # NoRef
      THEN EndsWithPdf(div.parent) /\ div.parent \notin seen
      ELSE FirstPdfChild(div.children) # NoRef /\ FirstPdfChild(div.children) \notin seen

\* link_elem: element.find_parent('a', href=True), or else
\* element.find('a', href=True)
LinkElem(element) ==
    IF element.parent # NoRef THEN element.parent ELSE FirstChild(element.children)

HasDigit(tok) == tok \in DecreeNumbers \cup {DateToken}

\* The index of the first part of s from position from on that satisfies
\* Test, 0 when there is none.
FirstFrom(s, from, Test(_, _)) ==
    LET hits == {i \in from..Len(s) : Test(s, i)}
    IN  IF hits = {} THEN 0 ELSE CHOOSE k \in hits : \A j \in hits : k <= j

IsMarker(s, i) == s[i] = Marker
IsNumber(s, i) == s[i] \in DecreeNumbers
IsMarkedNumber(s, i) == s[i] = Marker /\ i < Len(s) /\ s[i + 1] \in DecreeNumbers
IsDateThenMarker(s, i) == s[i] = DateToken /\ i < Len(s) /\ s[i + 1] = Marker

\* Méthode 3 and Méthode 4 of the title: re.search(r'(arrêté[^.]{10,300})')
\* in the text of the div, the whole text when it has no "arrêté".
RawTitre(text) ==
    LET i == FirstFrom(text, 1, IsMarker)
    IN  IF i = 0 THEN text ELSE SubSeq(text, i, Len(text))

\* numero_arrete: the first number in the title, or else the first number
\* that follows "arrêté n°" in the title and the content.
NumeroArrete(titre, contenu) ==
    LET i == FirstFrom(titre, 1, IsNumber)
        both == titre \o contenu
        j == FirstFrom(both, 1, IsMarkedNumber)
    IN  IF i # 0 THEN titre[i] ELSE IF j # 0 THEN both[j + 1] ELSE ""

\* titre_pattern: "arrêté n°" and the number, then as few parts without
\* digit as possible up to a date followed by "arrêté", or "arrêté n°" and
\* a number, or the end. The result is the positions <<first, last>> of the
\* match in s, <<0, 0>> when there is none.
TitreMatch(s, numero) ==
    LET Ends(i) ==
            {e \in (i + 2)..(Len(s) + 1) :
                /\ \A k \in (i + 2)..(e - 1) : ~HasDigit(s[k])
                /\ \/ e = Len(s) + 1
                   \/ IsDateThenMarker(s, e)
                   \/ IsMarkedNumber(s, e)}
        starts == {i \in 1..(Len(s) - 1) :
                      s[i] = Marker /\ s[i + 1] = numero /\ Ends(i) # {}}
    IN  IF starts = {} THEN <<0, 0>>
        ELSE LET i == CHOOSE k \in starts : \A j \in starts : k <= j
                 e == CHOOSE k \in Ends(i) : \A j \in Ends(i) : k <= j
             IN  <<i, e - 1>>

\* re.sub(r'(\s+\d{1,2}/\d{1,2}/\d{4}\s+arrêté).*$', '', titre)
CutAtNextDecree(titre) ==
    LET i == FirstFrom(titre, 2, IsDateThenMarker)
    IN  IF i = 0 THEN titre ELSE SubSeq(titre, 1, i - 1)

\* if numero_arrete and len(titre) > 200: the title narrowed to the decree
\* of that number.
NarrowTitre(titre, contenu, numero, long) ==
    IF numero = "" \/ ~long THEN titre
    ELSE LET s == titre \o contenu
             m == TitreMatch(s, numero)
         IN  IF m # <<0, 0>> THEN SubSeq(s, m[1], m[2]) ELSE CutAtNextDecree(titre)

\* if numero_arrete and contenu and len(contenu) > 300: the content narrowed
\* to the decree of that number.
NarrowContenu(contenu, numero, long_contenu) ==
    IF numero = "" \/ ~long_contenu THEN contenu
    ELSE LET m == TitreMatch(contenu, numero)
         IN  IF m # <<0, 0>> THEN SubSeq(contenu, m[1], m[2]) ELSE CutAtNextDecree(contenu)

\* titre.lower() of one part of a text.
LowerWords(tok) == IF tok = UpperWords THEN Words ELSE tok

\* 'circulation' in titre_lower
HoldsCirculation(text) == \E k \in DOMAIN text : LowerWords(text[k]) = Words

\* is_circulation_arrete(titre, contenu): contenu is not used. The variant
\* looks into contenu as well.
is_circulation_arrete_any(titre, contenu) == HoldsCirculation(titre) \/ HoldsCirculation(contenu)
is_circulation_arrete(titre, contenu) == HoldsCirculation(titre)

\* pdf_url: the link itself when it holds .pdf, or else the first child <a>
\* to a PDF joined to BASE_URL, or else "".
PdfUrlOfLinkOnly(element, lien) == IF EndsWithPdf(lien) THEN lien ELSE NoRef
PdfUrlOf(element, lien) ==
    IF EndsWithPdf(lien) THEN lien
    ELSE IF FirstPdfChild(element.children) # NoRef
      THEN ResolveLien(FirstPdfChild(element.children))
    ELSE NoRef

\* What extract_arrete_info returns when it returns None.
NoRecord ==
    [numero_arrete |-> None, titre |-> <<>>, lien |-> NoRef, pdf_url |-> NoRef,
     is_circulation |-> FALSE, contenu |-> <<>>]

\* extract_arrete_info(element, page=None), when nothing in it raises. The
\* field contenu is the content found, of which the record's contenu_preview
\* keeps the first 200 characters.
extract_arrete_info(element) ==
    IF LinkElem(element) = NoRef THEN NoRecord
    ELSE LET lien == ResolveLien(LinkElem(element))
             found == RawTitre(element.text)
             numero == NumeroArrete(found, element.text)
             titre == NarrowTitre(found, element.text, numero, element.long)
             contenu == NarrowContenu(element.text, numero, element.long_contenu)
         IN  [numero_arrete |-> numero,
              titre |-> titre,
              lien |-> lien,
              pdf_url |-> PdfUrlOf(element, lien),
              is_circulation |-> is_circulation_arrete(titre, contenu),
              contenu |-> contenu]

\* How the extraction of one candidate may end: extract_arrete_info returns
\* a record; it catches an exception and returns None; the body of the loop
\* raises.
ExtractionOutcomes == {"ok", "None", "raise"}

\* The body of the loop over arretes_elements, within its try: the list
\* after it and whether the loop goes on. In the aborting variant an
\* exception leaves the loop.
AfterCandidateAbort(arretes, element, outcome) ==
    IF outcome = "raise" THEN [arretes |-> arretes, pc |-> "returned"]
    ELSE IF outcome = "ok" /\ LinkElem(element) # NoRef
      THEN [arretes |-> Append(arretes, extract_arrete_info(element)), pc |-> "extract"]
    ELSE [arretes |-> arretes, pc |-> "extract"]
AfterCandidate(arretes, element, outcome) ==
    IF LinkElem(element) = NoRef THEN [arretes |-> arretes, pc |-> "extract"]
    ELSE IF outcome = "ok"
      THEN [arretes |-> Append(arretes, extract_arrete_info(element)), pc |-> "extract"]
    ELSE [arretes |-> arretes, pc |-> "extract"]

\* extract_arretes_from_page is called on a page whose HTML could be read:
\* the divs BeautifulSoup finds in it.
ExtractInit ==
    /\ decree_divs \in Pages
    /\ loose_anchors \in LooseAnchors
    /\ ex_pc = "select"
    /\ div_i = 1
    /\ arretes_elements = <<>>
    /\ seen_hrefs = {}
    /\ elem_i = 0
    /\ page_arretes = <<>>
    /\ ex_outcomes = <<>>
    /\ extractions = <<>>
    /\ file_hashes = <<>>
    /\ adv_pc = "idle"
    /\ attempt = 0
    /\ adv_file = NoFile
    /\ adv_result = FALSE
    /\ adv_chunks = <<>>
    /\ adv_written = <<>>
    /\ adv_end = "none"
    /\ arretes_csv = NoCsv
    /\ circulation_csv = NoCsv
    /\ n_saves = 0
    /\ next_controls = <<>>
    \* the other components stay idle
    /\ csv_file = NoCsv
    /\ last_arretes = <<>>
    /\ rows_before = 0
    /\ repeated = FALSE
    /\ latest = <<>>
    /\ pdf_url = NoRef
    /\ dl_pc = "idle"
    /\ current_url = NoRef
    /\ redirect_count = 0
    /\ dl_result = FALSE
    /\ output_file = NoFile
    /\ bootstrap_failed = FALSE
    /\ gets = 0
    /\ last_response = NoResponse
    /\ loop_fault = FALSE
    /\ only_redirects = TRUE
    /\ first_page = NoPage
    /\ bucket = {}
    /\ run = 0
    /\ env_dry_run = FALSE
    /\ credentials = FALSE
    /\ DRY_RUN = FALSE
    /\ s3_client = None
    /\ MAX_PAGES = 0
    /\ sc_pc = "idle"
    /\ page_num = 0
    /\ all_arretes = <<>>
    /\ arch_i = 0
    /\ local_files = {}
    /\ returned = <<>>
    /\ extracted = <<>>
    /\ fault_pages = {}
    /\ searched_at = {}
    /\ pages_extracted = 0
    /\ archive_log = <<>>
    /\ archived_before = {}
    /\ saved = <<>>
    /\ rs_DRY_RUN = FALSE
    /\ rs_pc = "idle"
    /\ rs_df = <<>>
    /\ to_process = {}
    /\ rs_i = 0
    /\ rs_csv = <<>>
    /\ rs_local_files = {}
    /\ rs_log = <<>>
    /\ resources = [r \in Resources |-> "None"]
    /\ closing_faults = {}
    /\ close_called = {}

\* for div in decree_divs: the body of the loop for the next div.
SelectCandidate ==
    /\ ex_pc = "select"
    /\ div_i <= Len(decree_divs)
    /\ LET div == decree_divs[div_i]
       IN  IF Admitted(div, seen_hrefs)
             THEN /\ arretes_elements' = Append(arretes_elements, div_i)
                  /\ seen_hrefs' = seen_hrefs \cup {SelectionHref(div)}
             ELSE UNCHANGED <<arretes_elements, seen_hrefs>>
    /\ div_i' = div_i + 1
    /\ UNCHANGED <<decree_divs, loose_anchors, ex_pc, elem_i, page_arretes, ex_outcomes>>
    /\ UNCHANGED <<dl_vars, ledger_vars, bucket, scrape_vars, rescrape_vars, browser_vars>>
    /\ UNCHANGED hash_vars
    /\ UNCHANGED adv_vars
    /\ UNCHANGED files_vars
    /\ UNCHANGED pagination_vars

\* The selection loop is over.
SelectDone ==
    /\ ex_pc = "select"
    /\ div_i > Len(decree_divs)
    /\ ex_pc' = "extract"
    /\ elem_i' = 1
    /\ UNCHANGED <<decree_divs, loose_anchors, div_i, arretes_elements, seen_hrefs,
                   page_arretes, ex_outcomes>>
    /\ UNCHANGED <<dl_vars, ledger_vars, bucket, scrape_vars, rescrape_vars, browser_vars>>
    /\ UNCHANGED hash_vars
    /\ UNCHANGED adv_vars
    /\ UNCHANGED files_vars
    /\ UNCHANGED pagination_vars

\* for element in arretes_elements: the body of the loop for the next
\* candidate.
ExtractElement ==
    /\ ex_pc = "extract"
    /\ elem_i <= Len(arretes_elements)
    /\ \E outcome \in ExtractionOutcomes :
        LET element == decree_divs[arretes_elements[elem_i]]
            after == AfterCandidate(page_arretes, element, outcome)
        IN  /\ page_arretes' = after.arretes
            /\ ex_pc' = after.pc
            /\ ex_outcomes' = Append(ex_outcomes, outcome)
    /\ elem_i' = elem_i + 1
    /\ UNCHANGED <<decree_divs, loose_anchors, div_i, arretes_elements, seen_hrefs>>
    /\ UNCHANGED <<dl_vars, ledger_vars, bucket, scrape_vars, rescrape_vars, browser_vars>>
    /\ UNCHANGED hash_vars
    /\ UNCHANGED adv_vars
    /\ UNCHANGED files_vars
    /\ UNCHANGED pagination_vars

\* return arretes
ReturnArretes ==
    /\ ex_pc = "extract"
    /\ elem_i > Len(arretes_elements)
    /\ ex_pc' = "returned"
    /\ UNCHANGED <<decree_divs, loose_anchors, div_i, arretes_elements, seen_hrefs, elem_i,
                   page_arretes, ex_outcomes>>
    /\ UNCHANGED <<dl_vars, ledger_vars, bucket, scrape_vars, rescrape_vars, browser_vars>>
    /\ UNCHANGED hash_vars
    /\ UNCHANGED adv_vars
    /\ UNCHANGED files_vars
    /\ UNCHANGED pagination_vars

ExtractNext == SelectCandidate \/ SelectDone \/ ExtractElement \/ ReturnArretes

SpecExtract == ExtractInit /\ [][ExtractNext]_vars

(***************************************************************************)
(* file_hash (extract_arrete_info)                                         *)
(***************************************************************************)

\* Decree numbers and titles, as sequences of characters. The number of a
\* record is the first number in its title or, when the title has none,
\* the first number after "arrêté n°" in its content: the pairs below are
\* a title starting with its number; a title without a run of four digits
\* whose number, one digit longer, comes from the content; a title holding
\* its number; and a title without number in a text without number.
HashPairs ==
    { [numero_arrete |-> <<"2", "0", "2", "4", "-", "1", "2", "3">>, titre |-> <<"2", "0", "2", "4", "-", "1", "2", "3", " ", "r", "u", "e">>],
      [numero_arrete |-> <<"2", "0", "2", "4", "-", "1", "2", "3", "2">>, titre |-> <<"0", "2", "4", "-", "1", "2", "3", " ", "r", "u", "e">>],
      [numero_arrete |-> <<"2", "0", "2", "4", "-", "1", "2", "3">>, titre |-> <<"A", "r", "r", "e", "t", "e", " ", "2", "0", "2", "4", "-", "1", "2", "3">>],
      [numero_arrete |-> <<>>, titre |-> <<"A", "r", "r", "e", "t", "e", " ", "r", "u", "e">>] }

\* What extract_arrete_info has found when it computes file_hash.
Extractions ==
    { [numero_arrete |-> p.numero_arrete, titre |-> p.titre, date_publication |-> d,
       lien |-> l] :
        p \in HashPairs, d \in {"", "12/01/2024"}, l \in {RelA, RelB} }

\* f"{numero_arrete}{titre}"
HashInput(numero, titre) == numero \o titre

\* hashlib.md5(f"{numero_arrete}{titre}".encode()).hexdigest()[:8]: MD5 is
\* taken as an ideal hash, a value that its input determines and that no
\* two inputs share; the first 8 characters of its hexadecimal form.
Md5Hex8(numero, titre) == [digest_of |-> HashInput(numero, titre), length |-> 8]

\* Two extractions, of the same page or of different pages and runs.
HashInit ==
    /\ extractions \in [1..2 -> Extractions]
    /\ file_hashes = <<>>
    /\ adv_pc = "idle"
    /\ attempt = 0
    /\ adv_file = NoFile
    /\ adv_result = FALSE
    /\ adv_chunks = <<>>
    /\ adv_written = <<>>
    /\ adv_end = "none"
    /\ arretes_csv = NoCsv
    /\ circulation_csv = NoCsv
    /\ n_saves = 0
    /\ next_controls = <<>>
    \* the other components stay idle
    /\ csv_file = NoCsv
    /\ last_arretes = <<>>
    /\ rows_before = 0
    /\ repeated = FALSE
    /\ latest = <<>>
    /\ pdf_url = NoRef
    /\ dl_pc = "idle"
    /\ current_url = NoRef
    /\ redirect_count = 0
    /\ dl_result = FALSE
    /\ output_file = NoFile
    /\ bootstrap_failed = FALSE
    /\ gets = 0
    /\ last_response = NoResponse
    /\ loop_fault = FALSE
    /\ only_redirects = TRUE
    /\ first_page = NoPage
    /\ bucket = {}
    /\ run = 0
    /\ env_dry_run = FALSE
    /\ credentials = FALSE
    /\ DRY_RUN = FALSE
    /\ s3_client = None
    /\ MAX_PAGES = 0
    /\ sc_pc = "idle"
    /\ page_num = 0
    /\ all_arretes = <<>>
    /\ arch_i = 0
    /\ local_files = {}
    /\ returned = <<>>
    /\ extracted = <<>>
    /\ fault_pages = {}
    /\ searched_at = {}
    /\ pages_extracted = 0
    /\ archive_log = <<>>
    /\ archived_before = {}
    /\ saved = <<>>
    /\ rs_DRY_RUN = FALSE
    /\ rs_pc = "idle"
    /\ rs_df = <<>>
    /\ to_process = {}
    /\ rs_i = 0
    /\ rs_csv = <<>>
    /\ rs_local_files = {}
    /\ rs_log = <<>>
    /\ resources = [r \in Resources |-> "None"]
    /\ closing_faults = {}
    /\ close_called = {}
    /\ decree_divs = <<>>
    /\ loose_anchors = {}
    /\ ex_pc = "idle"
    /\ div_i = 0
    /\ arretes_elements = <<>>
    /\ seen_hrefs = {}
    /\ elem_i = 0
    /\ page_arretes = <<>>
    /\ ex_outcomes = <<>>

\* file_hash = ... for the next extraction.
ComputeFileHash ==
    /\ Len(file_hashes) < Len(extractions)
    /\ LET e == extractions[Len(file_hashes) + 1]
       IN  file_hashes' = Append(file_hashes, Md5Hex8(e.numero_arrete, e.titre))
    /\ UNCHANGED extractions
    /\ UNCHANGED <<dl_vars, ledger_vars, bucket, scrape_vars, rescrape_vars, browser_vars>>
    /\ UNCHANGED extract_vars
    /\ UNCHANGED adv_vars
    /\ UNCHANGED files_vars
    /\ UNCHANGED pagination_vars

SpecHash == HashInit /\ [][ComputeFileHash]_vars

(***************************************************************************)
(* download_pdf_advanced (src/download_pdf_requests.py)                    *)
(***************************************************************************)

\* max_retries: int = 3
max_retries == 3

\* The chunks response.iter_content may give: an empty one, the start of a
\* PDF, the start of an HTML page, other bytes.
PdfChunk == <<"%", "P", "D", "F", "-">>
DataChunk == <<"d", "a", "t", "a">>
Chunks == {<<>>, PdfChunk, HtmlBody, DataChunk}

\* The number of chunks of a response.
MaxChunks == 2

ChunkLists == SeqsUpTo(Chunks, MaxChunks)

\* What one attempt may meet: a request (to the origin or to the PDF, or
\* raise_for_status) raises; the response declares text/html; the response
\* is streamed, and the stream gives its chunks, or gives them and then
\* raises.
AdvResponses ==
    { [kind |-> "fault", fault |-> f, chunks |-> <<>>] : f \in Faults }
        \cup { [kind |-> "html", fault |-> None, chunks |-> <<>>] }
        \cup { [kind |-> "stream", fault |-> f, chunks |-> c] :
                 f \in {None, "ConnectionError", "OtherException"}, c \in ChunkLists }

\* The bytes of a list of chunks.
RECURSIVE Flatten(_)
Flatten(chunks) == IF chunks = <<>> THEN <<>> ELSE Head(chunks) \o Flatten(Tail(chunks))

\* for chunk in response.iter_content(...): the chunks written, and whether
\* the loop was left by return False. A chunk that fails the check while
\* first_chunk is set ends the call on the last attempt; on an earlier
\* attempt the continue statement goes on with the next chunk, first_chunk
\* still set.
RECURSIVE StreamChunks(_, _, _, _)
StreamChunks(chunks, first_chunk, written, last_attempt) ==
    IF chunks = <<>> THEN [written |-> written, returned |-> FALSE]
    ELSE LET chunk == Head(chunks)
         IN  IF chunk = <<>>
               THEN StreamChunks(Tail(chunks), first_chunk, written, last_attempt)
             ELSE IF first_chunk /\ First4(chunk) # PDF_MAGIC
               THEN IF last_attempt THEN [written |-> written, returned |-> TRUE]
                    ELSE StreamChunks(Tail(chunks), TRUE, written, last_attempt)
             ELSE StreamChunks(Tail(chunks), FALSE, Append(written, chunk), last_attempt)

\* Vérification finale: first_bytes != b'%PDF'
FinalCheckLax(bytes) == TRUE
FinalCheck(bytes) == First4(bytes) = PDF_MAGIC

\* One pass of the loop over the attempts: the file afterwards, the chunks
\* written, how the pass ended, and whether the call returned and what.
AttemptBody(resp, att, file) ==
    LET last == ~(att < max_retries)
        st == StreamChunks(resp.chunks, TRUE, <<>>, last)
        bytes == Flatten(st.written)
        Continue(f, w, end) ==
            [file |-> f, written |-> w, end |-> end, returned |-> FALSE, result |-> FALSE]
        Return(f, w, end, result) ==
            [file |-> f, written |-> w, end |-> end, returned |-> TRUE, result |-> result]
    IN  IF resp.kind = "fault" THEN
            IF resp.fault = "OtherException" THEN Return(file, <<>>, "unexpected", FALSE)
            ELSE Continue(file, <<>>, "request_fault")
        ELSE IF resp.kind = "html" THEN
            IF last THEN Return(file, <<>>, "html", FALSE)
            ELSE Continue(file, <<>>, "html")
        ELSE IF st.returned THEN Return(File(bytes), st.written, "first_chunk", FALSE)
        ELSE IF resp.fault = "OtherException"
            THEN Return(File(bytes), st.written, "unexpected", FALSE)
        ELSE IF resp.fault # None THEN Continue(File(bytes), st.written, "stream_fault")
        ELSE IF ~FinalCheck(bytes) THEN
            IF last THEN Return(NoFile, st.written, "verify_failed", FALSE)
            ELSE Continue(NoFile, st.written, "verify_failed")
        ELSE Return(File(bytes), st.written, "ok", TRUE)

\* download_pdf_advanced is called with max_retries at its default and no
\* file at output_path.
AdvInit ==
    /\ adv_pc = "attempt"
    /\ attempt = 1
    /\ adv_file = NoFile
    /\ adv_result = FALSE
    /\ adv_chunks = <<>>
    /\ adv_written = <<>>
    /\ adv_end = "none"
    /\ arretes_csv = NoCsv
    /\ circulation_csv = NoCsv
    /\ n_saves = 0
    /\ next_controls = <<>>
    \* the other components stay idle
    /\ csv_file = NoCsv
    /\ last_arretes = <<>>
    /\ rows_before = 0
    /\ repeated = FALSE
    /\ latest = <<>>
    /\ pdf_url = NoRef
    /\ dl_pc = "idle"
    /\ current_url = NoRef
    /\ redirect_count = 0
    /\ dl_result = FALSE
    /\ output_file = NoFile
    /\ bootstrap_failed = FALSE
    /\ gets = 0
    /\ last_response = NoResponse
    /\ loop_fault = FALSE
    /\ only_redirects = TRUE
    /\ first_page = NoPage
    /\ bucket = {}
    /\ run = 0
    /\ env_dry_run = FALSE
    /\ credentials = FALSE
    /\ DRY_RUN = FALSE
    /\ s3_client = None
    /\ MAX_PAGES = 0
    /\ sc_pc = "idle"
    /\ page_num = 0
    /\ all_arretes = <<>>
    /\ arch_i = 0
    /\ local_files = {}
    /\ returned = <<>>
    /\ extracted = <<>>
    /\ fault_pages = {}
    /\ searched_at = {}
    /\ pages_extracted = 0
    /\ archive_log = <<>>
    /\ archived_before = {}
    /\ saved = <<>>
    /\ rs_DRY_RUN = FALSE
    /\ rs_pc = "idle"
    /\ rs_df = <<>>
    /\ to_process = {}
    /\ rs_i = 0
    /\ rs_csv = <<>>
    /\ rs_local_files = {}
    /\ rs_log = <<>>
    /\ resources = [r \in Resources |-> "None"]
    /\ closing_faults = {}
    /\ close_called = {}
    /\ decree_divs = <<>>
    /\ loose_anchors = {}
    /\ ex_pc = "idle"
    /\ div_i = 0
    /\ arretes_elements = <<>>
    /\ seen_hrefs = {}
    /\ elem_i = 0
    /\ page_arretes = <<>>
    /\ ex_outcomes = <<>>
    /\ extractions = <<>>
    /\ file_hashes = <<>>

\* for attempt in range(1, max_retries + 1): one pass.
AdvAttempt ==
    /\ adv_pc = "attempt"
    /\ attempt <= max_retries
    /\ \E resp \in AdvResponses :
        LET out == AttemptBody(resp, attempt, adv_file)
        IN  /\ adv_file' = out.file
            /\ adv_written' = out.written
            /\ adv_chunks' = resp.chunks
            /\ adv_end' = out.end
            /\ adv_pc' = IF out.returned THEN "returned" ELSE "attempt"
            /\ adv_result' = out.result
            /\ attempt' = IF out.returned THEN attempt ELSE attempt + 1
    /\ UNCHANGED <<dl_vars, ledger_vars, bucket, scrape_vars, rescrape_vars, browser_vars>>
    /\ UNCHANGED extract_vars
    /\ UNCHANGED hash_vars
    /\ UNCHANGED files_vars
    /\ UNCHANGED pagination_vars

\* The loop is over: return False.
AdvGiveUp ==
    /\ adv_pc = "attempt"
    /\ attempt > max_retries
    /\ adv_pc' = "returned"
    /\ adv_result' = FALSE
    /\ UNCHANGED <<attempt, adv_file, adv_chunks, adv_written, adv_end>>
    /\ UNCHANGED <<dl_vars, ledger_vars, bucket, scrape_vars, rescrape_vars, browser_vars>>
    /\ UNCHANGED extract_vars
    /\ UNCHANGED hash_vars
    /\ UNCHANGED files_vars
    /\ UNCHANGED pagination_vars

AdvNext == AdvAttempt \/ AdvGiveUp

SpecAdvanced == AdvInit /\ [][AdvNext]_vars

(***************************************************************************)
(* Properties of download_pdf                                              *)
(***************************************************************************)

\* C1: download_pdf returns True only if the last response it received
\* declared a content type containing application/pdf or
\* application/octet-stream (compared in lower case) and its body begins
\* with the 4 bytes %PDF; the file at output_path then holds exactly that body.
C1_TrueOnlyForValidatedPdf ==
    (dl_pc = "returned" /\ dl_result) =>
        /\ last_response # NoResponse
        /\ \E i \in DOMAIN last_response.header :
              Lower(last_response.header[i]) \in {"application/pdf", "application/octet-stream"}
        /\ Len(last_response.content) >= 4
        /\ SubSeq(last_response.content, 1, 4) = <<"%", "P", "D", "F">>
        /\ output_file.exists
        /\ output_file.bytes = last_response.content

\* A call that followed a redirect and then returned True.
C1_Witness ==
    /\ dl_pc = "returned"
    /\ dl_result
    /\ redirect_count > 0
    /\ Len(last_response.content) > 4

\* C2: when every response is an HTML page offering a redirect, every GET
\* consumes one redirect, no more than 5 GETs are issued (the target of the
\* 5th redirect is never requested), and the call returns False after the 5th.
C2_FiveHopsThenFailure ==
    /\ only_redirects => (gets = redirect_count /\ gets <= 5)
    /\ (dl_pc = "returned" /\ only_redirects) =>
          (gets = 5 /\ redirect_count = 5 /\ ~dl_result)

\* Five redirect pages in a row, the last one pointing to another host, and
\* the call has returned.
C2_Witness ==
    /\ dl_pc = "returned"
    /\ only_redirects
    /\ gets = 5
    /\ current_url.host # pdf_url.host

\* C3 as stated: no exception leaves download_pdf, and after a fault of any
\* request, the bootstrap request included, the call returns False.
C3_AnyFaultReturnsFalse ==
    /\ dl_pc # "raised"
    /\ (dl_pc = "returned" /\ (bootstrap_failed \/ loop_fault)) => ~dl_result

\* C3 amended: no exception leaves download_pdf; a fault of the bootstrap
\* request is swallowed (the loop is entered all the same), and after a
\* fault of a request of the redirect loop the call returns False.
C3_NoExceptionEscapes ==
    /\ dl_pc # "raised"
    /\ (bootstrap_failed /\ dl_pc # "bootstrap") => dl_pc \in {"loop", "returned"}
    /\ loop_fault => (dl_pc = "returned" /\ ~dl_result)

\* A call whose bootstrap request and whose second loop request both raised.
C3_Witness ==
    /\ dl_pc = "returned"
    /\ bootstrap_failed
    /\ loop_fault
    /\ gets = 2

(***************************************************************************)
(* Properties of scrape_arretes                                            *)
(***************************************************************************)

\* The decrees of a record list, in order.
IdsOf(arretes) == [i \in DOMAIN arretes |-> arretes[i].id]

\* C4: once the archival loop of scrape_arretes has invoked the Downloader
\* for a record, the record's pdf_s3_url is a storage URL or an error
\* sentinel, never left absent.
C4_AttemptedNeverBlank ==
    \A i \in DOMAIN archive_log :
        archive_log[i].invoked => all_arretes[i].pdf_s3_url.kind \in {"s3", "error"}

\* C6: in a run with storage available, the Downloader is not invoked for a
\* record whose PDF an earlier run has uploaded.
C6_ArchivedNeverRefetched ==
    \A i \in DOMAIN archive_log :
        (s3_client # None /\ ScrapeKey(all_arretes[i].id) \in archived_before)
            => ~archive_log[i].invoked

\* C9: the record list holds every record extracted so far, in order,
\* whatever raised on the way; that list is the one the archival loop goes
\* through, the one handed to save_to_csv and the one returned.
C9_PartialResultsKept ==
    /\ sc_pc # "start" => IdsOf(all_arretes) = extracted
    /\ sc_pc \in {"archive", "save"} => DOMAIN archive_log = DOMAIN all_arretes
    /\ sc_pc = "returned" => IdsOf(returned) = extracted
    /\ (sc_pc = "returned" /\ pages_extracted > 0) => IdsOf(saved) = extracted

\* A run in which page 2 raised, and the record of page 1 was archived,
\* saved and returned.
C9_Witness ==
    /\ sc_pc = "returned"
    /\ 2 \in fault_pages
    /\ Len(extracted) >= 1
    /\ Len(saved) >= 1
    /\ archive_log[1].invoked

\* C10: with a page ceiling N > 0, at most N pages are extracted, and no
\* next-page control is looked for on page N or later.
C10_CeilingStopsPagination ==
    MAX_PAGES > 0 =>
        /\ pages_extracted <= MAX_PAGES
        /\ page_num <= MAX_PAGES
        /\ \A p \in searched_at : p < MAX_PAGES

\* A run with ceiling 2 that extracted two pages and stopped there.
C10_Witness ==
    /\ MAX_PAGES = 2
    /\ pages_extracted = 2
    /\ searched_at = {1}
    /\ sc_pc = "returned"
    /\ Len(returned) = 2

(***************************************************************************)
(* Properties of save_to_csv                                               *)
(***************************************************************************)

\* C7: the ledger merge is idempotent: a call of save_to_csv with the
\* argument of the call before it leaves the number of ledger rows as that
\* call left it.
C7_MergeIdempotent ==
    repeated => Len(csv_file.rows) = rows_before

\* C8: the ledger never holds two rows with the same (numero_arrete,
\* date_publication), and the row it holds for a key is the last record
\* saved under that key.
C8_UniqueKeysLatestWins ==
    /\ \A i, j \in DOMAIN csv_file.rows :
          i # j => FileKey(csv_file.rows[i]) # FileKey(csv_file.rows[j])
    /\ \A i \in DOMAIN csv_file.rows :
          csv_file.rows[i].date_scrape = latest[FileKey(csv_file.rows[i])]

(***************************************************************************)
(* Properties of process_csv                                               *)
(***************************************************************************)

\* The rows for which head_object answered that the derived key exists.
ReportedPresent == {i \in DOMAIN rs_log : rs_log[i].iterated /\ rs_log[i].present}

\* For a row reported present, with DRY_RUN false: neither the Downloader nor
\* the upload was invoked, and pdf_s3_url is the URL of the derived key.
AdoptedWithoutFetch(i) ==
    /\ ~rs_log[i].invoked
    /\ ~rs_log[i].upload_called
    /\ rs_df[i].pdf_s3_url = S3Url(rs_log[i].key)

\* C5 as stated: in process_csv with DRY_RUN false, for every processed row
\* whose derived key is reported present by storage, the Downloader and the
\* upload are never invoked, pdf_s3_url becomes the URL of that key and
\* poids_pdf_ko becomes the object's size divided by 1024 (poids_pdf_ko is in
\* hundredths of a kilobyte, so it equals size / 1024 exactly when
\* poids_pdf_ko * 1024 = size * 100).
C5_PresentKeyAdoptsExactSize ==
    ~rs_DRY_RUN =>
        \A i \in ReportedPresent :
            /\ AdoptedWithoutFetch(i)
            /\ rs_df[i].poids_pdf_ko * 1024 = rs_log[i].size * 100

\* C5 amended: as above, but poids_pdf_ko is the object's size divided by
\* 1024 and rounded to two decimals, i.e. the difference between
\* poids_pdf_ko and size / 1024 is at most half a hundredth.
C5_PresentKeyAdoptsRoundedSize ==
    ~rs_DRY_RUN =>
        \A i \in ReportedPresent :
            LET diff == rs_df[i].poids_pdf_ko * 1024 - rs_log[i].size * 100
            IN  /\ AdoptedWithoutFetch(i)
                /\ 2 * diff <= 1024
                /\ 2 * diff >= -1024

\* A call with DRY_RUN false has finished, and a row's key was reported
\* present with an object of 100 bytes, which is no whole number of
\* hundredths of a kilobyte.
C5_Witness ==
    /\ ~rs_DRY_RUN
    /\ rs_pc = "done"
    /\ \E i \in ReportedPresent : rs_log[i].size = 100

(***************************************************************************)
(* Properties of the browser of scrape_arretes                             *)
(***************************************************************************)

\* C11: once scrape_arretes has left the browser block, by whatever path
\* (completion, a return, the page ceiling, an exception), the finally block
\* has called close() on every resource that was created (the page, the
\* context, the browser, Playwright), and every one of them whose own
\* close() did not raise is closed, whichever of the other close() calls
\* raised; this is so before the archival loop starts and before the
\* function returns.
C11_ResourcesClosedOnEveryExit ==
    sc_pc \in {"archive", "save", "returned"} =>
        \A r \in Resources :
            resources[r] # "None" =>
                /\ r \in close_called
                /\ r \notin closing_faults => resources[r] = "closed"

\* The archival loop is about to start after a run that extracted a page;
\* page.close() raised, and the context, the browser and Playwright are
\* closed all the same.
C11_Witness ==
    /\ sc_pc = "archive"
    /\ pages_extracted >= 1
    /\ closing_faults = {"page"}
    /\ resources["page"] = "open"
    /\ \A r \in Resources \ {"page"} : resources[r] = "closed"

(***************************************************************************)
(* Properties of the redirect loop of download_pdf                         *)
(***************************************************************************)

\* The first response was an HTML page with a script that assigns '/x.pdf'
\* to window.location.href, and the second request has been answered
\* without a fault.
SecondAnswered == gets = 2 /\ ~loop_fault /\ dl_pc # "loop"

\* C12 as stated: when the initial URL returns an HTML page containing a
\* script with window.location.href = '/x.pdf', the next request goes to
\* /x.pdf on the host of the current URL, and the download succeeds if and
\* only if the content served there starts with %PDF.
C12_ScriptRedirectSucceedsIffPdf ==
    (first_page.html /\ first_page.contains) =>
        /\ (gets = 1 /\ dl_pc = "loop") =>
              current_url = [host |-> pdf_url.host, path |-> "/x.pdf"]
        /\ SecondAnswered =>
              (dl_result <=> First4(last_response.content) = PDF_MAGIC)

\* C12 amended: when the initial URL returns an HTML page whose first script
\* with a window.location assignment sets window.location.href = '/x.pdf',
\* the next request goes to /x.pdf on the host of the current URL; and when
\* the response to it declares a content type containing application/pdf or
\* application/octet-stream, the download succeeds if and only if that
\* response's content starts with %PDF.
C12_FirstScriptRedirectAndTypedPdf ==
    (first_page.html /\ first_page.first) =>
        /\ (gets = 1 /\ dl_pc = "loop") =>
              current_url = [host |-> pdf_url.host, path |-> "/x.pdf"]
        /\ gets = 1 => (dl_pc = "loop" /\ redirect_count = 1)
        /\ (gets = 2 /\ ~loop_fault /\ IsPdfType(LowerAll(last_response.header))) =>
              /\ dl_pc = "returned"
              /\ dl_result <=> First4(last_response.content) = PDF_MAGIC

\* The page at /doc redirected by its script to /x.pdf, which was served as
\* application/pdf with a content starting with %PDF: the download succeeded.
C12_Witness ==
    /\ first_page.html /\ first_page.first
    /\ pdf_url.path = "/doc"
    /\ current_url = [host |-> "h1", path |-> "/x.pdf"]
    /\ gets = 2
    /\ dl_pc = "returned"
    /\ dl_result
    /\ output_file = File(last_response.content)

\* The step is a request of the loop answered without a fault.
Answered == dl_pc = "loop" /\ gets' = gets + 1 /\ ~loop_fault'

\* The response declares text/html and no PDF type.
DeclaredHtml(resp) ==
    /\ \A i \in DOMAIN resp.header :
          Lower(resp.header[i]) \notin {"application/pdf", "application/octet-stream"}
    /\ \E i \in DOMAIN resp.header : Lower(resp.header[i]) = "text/html"

\* The address a reference found at url stands for.
Target(url, ref) == IF ref.host # None THEN ref ELSE [host |-> url.host, path |-> ref.path]

\* The step consumes one redirect and makes the reference the next URL.
Follows(ref) ==
    /\ dl_pc' = "loop"
    /\ redirect_count' = redirect_count + 1
    /\ current_url' = Target(current_url, ref)

LyingPdf(resp) ==
    /\ \E i \in DOMAIN resp.header :
          Lower(resp.header[i]) \in {"application/pdf", "application/octet-stream"}
    /\ First4(resp.content) # PDF_MAGIC

\* The response declares neither a PDF type nor text/html; a response
\* without Content-Type is one of them.
OtherType(resp) ==
    \A i \in DOMAIN resp.header :
        Lower(resp.header[i]) \notin {"application/pdf", "application/octet-stream", "text/html"}

\* C14: a content mismatch is never retried: after a response that declares
\* a PDF type but does not start with %PDF, or one whose content type is
\* neither a PDF type nor text/html (a missing Content-Type included),
\* download_pdf returns False, writes nothing and issues no further request.
C14_MismatchNeverRetried ==
    [][ /\ dl_pc = "returned" => (gets' = gets /\ dl_result' = dl_result)
        /\ (Answered /\ (LyingPdf(last_response') \/ OtherType(last_response'))) =>
              /\ dl_pc' = "returned"
              /\ ~dl_result'
              /\ output_file' = output_file
      ]_vars

\* The only response of a call had no Content-Type and a content starting
\* with %PDF: the call returned False after that one request.
C14_Witness ==
    /\ gets = 1
    /\ ~loop_fault
    /\ last_response.header = <<>>
    /\ First4(last_response.content) = PDF_MAGIC
    /\ dl_pc = "returned"
    /\ ~dl_result
    /\ output_file = NoFile

(***************************************************************************)
(* Properties of the archival loop of scrape_arretes                       *)
(***************************************************************************)

\* C15: a record whose download met a transient network fault (a timeout or
\* a connection error) is marked as failed only after the archival loop has
\* called the Downloader for it again, i.e. more than once.
C15_TransientFaultRetried ==
    \A i \in DOMAIN archive_log :
        (archive_log[i].transient /\ all_arretes[i].pdf_s3_url.kind = "error")
            => archive_log[i].attempts > 1

(***************************************************************************)
(* Properties of the bootstrap request of download_pdf                     *)
(***************************************************************************)

\* The response declares a PDF type and its content starts with %PDF.
GenuinePdf(resp) ==
    /\ \E i \in DOMAIN resp.header :
          Lower(resp.header[i]) \in {"application/pdf", "application/octet-stream"}
    /\ First4(resp.content) = PDF_MAGIC

C17_DryRunForcedOnceAndKept ==
    /\ []((sc_pc # "start" /\ ~credentials) => (DRY_RUN /\ s3_client = None))
    /\ [](DRY_RUN => \A i \in DOMAIN archive_log : ~archive_log[i].storage_call)
    /\ [][(DRY_RUN => DRY_RUN') /\ (DRY_RUN' => bucket' = bucket)]_vars

\* A run started without credentials and without DRY_RUN in the environment
\* has extracted records from a page and returned them, in dry run, with
\* the bucket as it was.
C17_Witness ==
    /\ sc_pc = "returned"
    /\ ~credentials
    /\ ~env_dry_run
    /\ DRY_RUN
    /\ pages_extracted >= 1
    /\ returned # <<>>
    /\ bucket = archived_before

(***************************************************************************)
(* Properties of extract_arretes_from_page                                 *)
(***************************************************************************)

\* The positions, among the candidates, of those whose extraction gave a
\* record.
Extracted ==
    SelectSeq([k \in DOMAIN ex_outcomes |-> k], LAMBDA k : ex_outcomes[k] = "ok")

\* C18: a candidate whose extraction raises or returns None does not end
\* the extraction of the page: when the function returns, every candidate
\* was tried, and the list returned holds, in order, the record of each
\* candidate whose own extraction succeeded, whether it came before or
\* after a failing one.
C18_FailureSkipsOnlyThatCandidate ==
    ex_pc = "returned" =>
        /\ Len(ex_outcomes) = Len(arretes_elements)
        /\ Len(page_arretes) = Len(Extracted)
        /\ \A j \in DOMAIN page_arretes :
              page_arretes[j] =
                  extract_arrete_info(decree_divs[arretes_elements[Extracted[j]]])

\* The extraction of the first of two candidates raised; the second was
\* extracted and is the one record returned.
C18_Witness ==
    /\ ex_pc = "returned"
    /\ ex_outcomes = <<"raise", "ok">>
    /\ Len(page_arretes) = 1
    /\ page_arretes[1] = extract_arrete_info(decree_divs[arretes_elements[2]])

\* C19: the records returned for one page have pairwise different resolved
\* links (lien, after urljoin with BASE_URL), however the anchors are
\* placed around or inside the divs and whether their hrefs are relative or
\* absolute.
C19_NoTwoRecordsShareLien ==
    ex_pc = "returned" =>
        \A i, j \in DOMAIN page_arretes :
            i # j => page_arretes[i].lien # page_arretes[j].lien

\* Whether a title holds a decree number.
Mentions(titre, numero) == \E k \in DOMAIN titre : titre[k] = numero

\* C20: a page with one div in a PDF link, the text of the div being two
\* decrees one after the other with a date and a second "Arrêté n°" between
\* them, gives two records, and the title of neither holds the number of
\* the other.
C20_TwoBlocksGiveTwoRecords ==
    ( /\ ex_pc = "returned"
      /\ Len(decree_divs) = 1
      /\ decree_divs[1].text = TwoBlocks
      /\ ex_outcomes = <<"ok">> ) =>
        /\ Len(page_arretes) = 2
        /\ \A i, j \in DOMAIN page_arretes :
              i # j => ~Mentions(page_arretes[i].titre, page_arretes[j].numero_arrete)

(***************************************************************************)
(* Properties of the records of extract_arrete_info                        *)
(***************************************************************************)

\* C21: every record extracted has is_circulation true exactly when its
\* title, as it stands in the record after the narrowing to one decree,
\* holds "circulation" in upper or lower case; what the content holds makes
\* no difference: records of the same title are classified alike.
C21_CirculationIffInTitle ==
    /\ \A i \in DOMAIN page_arretes :
          page_arretes[i].is_circulation <=> HoldsCirculation(page_arretes[i].titre)
    /\ \A i, j \in DOMAIN page_arretes :
          page_arretes[i].titre = page_arretes[j].titre
              => page_arretes[i].is_circulation = page_arretes[j].is_circulation

\* Two records were returned: one whose title, narrowed to the first decree,
\* does not hold "circulation" while its content does, classified false;
\* one whose title holds "CIRCULATION", classified true.
C21_Witness ==
    /\ ex_pc = "returned"
    /\ \E i \in DOMAIN page_arretes :
          /\ ~HoldsCirculation(page_arretes[i].titre)
          /\ HoldsCirculation(page_arretes[i].contenu)
          /\ ~page_arretes[i].is_circulation
    /\ \E i \in DOMAIN page_arretes :
          /\ \E k \in DOMAIN page_arretes[i].titre : page_arretes[i].titre[k] = UpperWords
          /\ page_arretes[i].is_circulation

\* The number and the title of an extraction.
PairOf(e) == <<e.numero_arrete, e.titre>>

\* C22: file_hash depends on the number and the title alone: two
\* extractions of the same number and title have the same file_hash, of 8
\* characters, whatever their date and link; and two extractions that
\* differ in number or title hand different texts to the hash function.
C22_HashOfNumberAndTitleAlone ==
    Len(file_hashes) = 2 =>
        /\ PairOf(extractions[1]) = PairOf(extractions[2]) => file_hashes[1] = file_hashes[2]
        /\ \A i \in 1..2 : file_hashes[i].length = 8
        /\ PairOf(extractions[1]) # PairOf(extractions[2]) =>
              HashInput(extractions[1].numero_arrete, extractions[1].titre)
                  # HashInput(extractions[2].numero_arrete, extractions[2].titre)

(***************************************************************************)
(* Properties of download_pdf_advanced                                     *)
(***************************************************************************)

\* The chunks of a response that hold bytes.
NonEmpty(chunks) == SelectSeq(chunks, LAMBDA c : c # <<>>)

\* Whether a file is there and does not start with %PDF.
FailsSignature(file) == file.exists /\ First4(file.bytes) # PDF_MAGIC

\* C23: in every attempt, when the first chunk of the response streamed
\* does not start with %PDF, no chunk of that response is written to the
\* file.
C23_BadFirstChunkNothingWritten ==
    ( /\ NonEmpty(adv_chunks) # <<>>
      /\ First4(Head(NonEmpty(adv_chunks))) # PDF_MAGIC ) => adv_written = <<>>

\* C24, as stated: the call returns True only with a file that starts with
\* %PDF at output_path, and when it returns False no file that fails the
\* signature check, an empty file included, is left there.
C24_FalseLeavesNoFailingFile ==
    adv_pc = "returned" =>
        /\ adv_result => (adv_file.exists /\ First4(adv_file.bytes) = PDF_MAGIC)
        /\ ~adv_result => ~FailsSignature(adv_file)

\* C24, amended: the call returns True only with a file that starts with
\* %PDF at output_path; when it returns False after the final check of the
\* written file failed, the file has been removed; and a file that fails
\* the signature check when the call returns False is an empty one.
C24_TrueOnlyForPdfFile ==
    adv_pc = "returned" =>
        /\ adv_result => (adv_file.exists /\ First4(adv_file.bytes) = PDF_MAGIC)
        /\ (~adv_result /\ adv_end = "verify_failed") => ~adv_file.exists
        /\ (~adv_result /\ FailsSignature(adv_file)) => adv_file.bytes = <<>>

\* The last attempt streamed a response without bytes: the final check
\* failed, the file was removed and the call returned False.
C24_Witness ==
    /\ adv_pc = "returned"
    /\ ~adv_result
    /\ attempt = max_retries
    /\ adv_end = "verify_failed"
    /\ ~adv_file.exists

(***************************************************************************)
(* Properties of the rows of the ledger                                    *)
(***************************************************************************)

\* The (numero_arrete, date_publication) keys the ledger file shows.
LedgerKeys(file) == {FileKey(file.rows[i]) : i \in DOMAIN file.rows}

LedgerRowOf(id) ==
    [numero_arrete |-> ReadCell(RecordOf(id).numero_arrete),
     file_hash |-> ReadCell(RecordOf(id).file_hash),
     date_publication |-> ReadCell(RecordOf(id).date_publication)]

\* C26: the key under which the archival loop of scrape_arretes has stored
\* a record is the key process_csv derives for the same record, and its
\* year is the year of date_publication, the current year only when the
\* date holds no year.
C26_SameKeyInBothLoops ==
    \A i \in DOMAIN all_arretes :
        all_arretes[i].pdf_s3_url.kind = "s3" =>
            /\ all_arretes[i].pdf_s3_url.key = RescrapeKey(LedgerRowOf(all_arretes[i].id))
            /\ all_arretes[i].pdf_s3_url.key.annee
                  = Annee(RecordOf(all_arretes[i].id).date_publication)

(***************************************************************************)
(* Properties of the selection of candidates                               *)
(***************************************************************************)

\* C27: a page without any div of the decree class, but with a link to a
\* PDF that names a decree, still gives candidates: the selection falls
\* back to the links of the page.
C27_FallsBackToAnchors ==
    ( /\ ex_pc \in {"extract", "returned"}
      /\ decree_divs = <<>>
      /\ loose_anchors # {} ) => arretes_elements # <<>>

(***************************************************************************)
(* Properties of the pagination loop                                       *)
(***************************************************************************)

\* C28: an exception raised while page k is extracted ends the pagination:
\* the pass that records the fault never goes on to the search for the
\* next-page control.
C28_ExtractionFaultEndsPagination ==
    [][ ( /\ sc_pc = "extract"
          /\ page_num \notin fault_pages
          /\ page_num \in fault_pages' ) => sc_pc' # "advance" ]_vars

(***************************************************************************)
(* Properties of the two archival loops                                    *)
(***************************************************************************)

\* C29: a failure on one record never stops an archival loop.  When the
\* loop of scrape_arretes is over the Downloader has been called for every
\* record, and the list it went through is the one written to the ledger;
\* when the loop of process_csv is over every row it had to process has
\* been handled, the rows with their three cells have had their key worked
\* out, and the file is written from the DataFrame.
C29_FailureNeverStopsTheLoop ==
    /\ (s3_client # None /\ sc_pc \in {"save", "returned"})
           => \A i \in DOMAIN archive_log : archive_log[i].invoked
    /\ (s3_client # None /\ sc_pc = "returned" /\ archive_log # <<>>)
           => /\ DOMAIN archive_log = DOMAIN all_arretes
              /\ saved = all_arretes
    /\ (rs_pc = "done" /\ to_process # {})
           => /\ \A idx \in to_process :
                    /\ rs_log[idx].iterated
                    /\ ~rs_log[idx].skipped => rs_log[idx].key # NoKey
              /\ rs_csv = [i \in DOMAIN rs_df |-> WriteCsvRow(rs_df[i])]

\* A run whose first record failed and whose second record was attempted
\* all the same, and written to the ledger with the first.
C29_Witness ==
    /\ sc_pc = "returned"
    /\ Len(all_arretes) = 2
    /\ all_arretes[1].pdf_s3_url.kind = "error"
    /\ archive_log[2].invoked
    /\ saved = all_arretes

(***************************************************************************)
(* Properties of the rows process_csv leaves alone                         *)
(***************************************************************************)

\* The row of the DataFrame was read from a row of the file whose
\* numero_arrete, file_hash or pdf_url cell is empty.
EmptyKeyCell(row) ==
    row.numero_arrete = NaN \/ row.file_hash = NaN \/ row.pdf_url = NaN

\* C30: process_csv leaves alone every row of the ledger read with an empty
\* numero_arrete, file_hash or pdf_url cell: the Downloader is not called
\* for it and its pdf_s3_url stays what was read.
C30_EmptyCellRowsLeftAlone ==
    rs_pc = "loop" =>
        \A idx \in DOMAIN rs_df :
            EmptyKeyCell(rs_df[idx]) =>
                /\ ~rs_log[idx].invoked
                /\ rs_df[idx].pdf_s3_url = ReadCsvRow(rs_csv[idx]).pdf_s3_url

(***************************************************************************)
(* Properties of the local copy of a downloaded PDF                        *)
(***************************************************************************)

\* The name of the local file of record i of the run.
LocalName(i) ==
    PdfFilename(RecordOf(all_arretes[i].id).numero_arrete,
                RecordOf(all_arretes[i].id).file_hash)

\* C31: once a loop is done with a record whose download succeeded, the
\* local copy of the PDF is gone, whatever the upload did: returned a URL,
\* returned None, or raised an exception that is not a ClientError.
C31_LocalCopyAlwaysDeleted ==
    /\ (sc_pc = "archive" /\ arch_i > 1 /\ archive_log[arch_i - 1].downloaded)
           => LocalName(arch_i - 1) \notin local_files
    /\ (rs_pc = "loop" /\ rs_i > 0 /\ rs_log[rs_i].upload_called)
           => RescrapeKey(rs_df[rs_i]) \notin rs_local_files

(***************************************************************************)
(* Properties of the two ledgers                                           *)
(***************************************************************************)

\* C32: a row of the cumulative ledger that carries a storage URL keeps a
\* storage URL through every later save_to_csv: the row under its key is
\* never one with an empty pdf_s3_url.
C32_StorageUrlNeverBlanked ==
    [][ \A i \in DOMAIN arretes_csv.rows :
            arretes_csv.rows[i].pdf_s3_url # "" =>
                \A j \in DOMAIN arretes_csv'.rows :
                    FileKey(arretes_csv'.rows[j]) = FileKey(arretes_csv.rows[i])
                        => arretes_csv'.rows[j].pdf_s3_url # "" ]_vars

\* The rows of a file, as a set.
RowsOf(file) == {file.rows[i] : i \in DOMAIN file.rows}

\* C34: after any calls of save_to_csv the circulation ledger is the
\* cumulative ledger filtered on is_circulation: all its rows are
\* circulation decrees, and they are the circulation rows of the cumulative
\* ledger, so no row outlives the reclassification of its key.
C34_CirculationIsFilteredCumulative ==
    /\ \A row \in RowsOf(circulation_csv) : row.is_circulation
    /\ RowsOf(circulation_csv) = {row \in RowsOf(arretes_csv) : row.is_circulation}

(***************************************************************************)
(* Properties of the storage URLs process_csv writes                       *)
(***************************************************************************)

\* C33: a row process_csv has given a storage URL has its object in the
\* bucket, under the key of the URL: storage reported it present, or the
\* downloaded file was uploaded there.  DRY_RUN makes no difference.
C33_StorageUrlMeansObject ==
    \A idx \in DOMAIN rs_log :
        (rs_log[idx].iterated /\ rs_df[idx].pdf_s3_url.kind = "s3")
            => rs_df[idx].pdf_s3_url.key \in bucket

\* C33, amended: with DRY_RUN false the object of every storage URL
\* process_csv writes is in the bucket; with DRY_RUN true the URL comes from
\* the simulated upload alone, storage having been neither asked nor
\* written.
C33_StorageUrlMeansObjectUnlessDryRun ==
    \A idx \in DOMAIN rs_log :
        (rs_log[idx].iterated /\ rs_df[idx].pdf_s3_url.kind = "s3")
            => IF rs_DRY_RUN
                 THEN ~rs_log[idx].present /\ rs_log[idx].upload_called
                 ELSE rs_df[idx].pdf_s3_url.key \in bucket

\* A row that was downloaded and uploaded for real, and has its object.
C33_Witness ==
    \E idx \in DOMAIN rs_log :
        /\ ~rs_DRY_RUN
        /\ rs_log[idx].upload_called
        /\ rs_df[idx].pdf_s3_url.kind = "s3"
        /\ rs_df[idx].pdf_s3_url.key \in bucket

(***************************************************************************)
(* Properties of the rows process_csv does not process                     *)
(***************************************************************************)

\* The row of the file already has a storage URL or an error sentinel.
Settled(row) == row.pdf_s3_url.kind \in {"s3", "error"}

\* Nothing was asked of storage or of the Downloader for the settled rows.
SettledRowsNotHandled ==
    rs_pc = "loop" =>
        \A i \in DOMAIN rs_csv : Settled(rs_csv[i]) => rs_log[i] = NoRowLog

\* C35: process_csv changes only the rows whose pdf_s3_url was empty when
\* the file was read: a row with a storage URL or an error sentinel is the
\* same text in the file written, nothing is asked of storage or of the
\* Downloader for it, and the file keeps its number of rows.
C35_SettledRowsUnchanged ==
    /\ []SettledRowsNotHandled
    /\ [][ (rs_pc = "loop" /\ rs_pc' = "done") =>
              /\ Len(rs_csv') = Len(rs_csv)
              /\ \A i \in DOMAIN rs_csv : Settled(rs_csv[i]) => rs_csv'[i] = rs_csv[i] ]_vars

\* C35, amended: the cells of a settled row are written as read_csv read
\* them, which is the text of the file but for a column read as numbers.
C35_SettledRowsKeepTheirValues ==
    /\ []SettledRowsNotHandled
    /\ [][ rs_pc = "loop" =>
              /\ \A i \in DOMAIN rs_csv : Settled(rs_csv[i]) => rs_df'[i] = rs_df[i]
              /\ rs_pc' = "done" =>
                    /\ Len(rs_csv') = Len(rs_csv)
                    /\ \A i \in DOMAIN rs_csv :
                          Settled(rs_csv[i]) =>
                              rs_csv'[i] = WriteCsvRow(ReadCsvFile(rs_csv)[i]) ]_vars

\* A file written with a row that had an error sentinel next to a row that
\* was processed: the first is as it was.
C35_Witness ==
    /\ rs_pc = "done"
    /\ Len(rs_csv) = 2
    /\ rs_csv[1].pdf_s3_url.kind = "error"
    /\ rs_log[1] = NoRowLog
    /\ rs_log[2].iterated

(***************************************************************************)
(* Termination of the pagination loop                                      *)
(***************************************************************************)

\* C36: the pagination loop is left in the end, whatever the page ceiling
\* (0 for none) and whatever the listing, one whose every page shows a
\* next-page control included.
C36_PaginationTerminates == <>(sc_pc = "close")

(***************************************************************************)
(* Properties of the pdf_url of the records of a page                      *)
(***************************************************************************)

\* C37: every record extract_arretes_from_page returns has a pdf_url, and
\* extract_arrete_info finds one for every candidate the selection loop
\* kept: a div inside an <a> ending in .pdf, or one without such a parent
\* and with a child <a> ending in .pdf.
C37_EveryRecordHasPdfUrl ==
    /\ \A i \in DOMAIN page_arretes : page_arretes[i].pdf_url # NoRef
    /\ \A k \in DOMAIN arretes_elements :
          extract_arrete_info(decree_divs[arretes_elements[k]]).pdf_url # NoRef

\* A record returned for a div without parent <a>, whose first child <a> is
\* not the PDF: the pdf_url is that of the later child.
C37_Witness ==
    /\ ex_pc = "returned"
    /\ \E i \in DOMAIN page_arretes :
          /\ ~EndsWithPdf(page_arretes[i].lien)
          /\ EndsWithPdf(page_arretes[i].pdf_url)

(***************************************************************************)
(* Properties of a dry run of scrape_arretes                               *)
(***************************************************************************)

\* The record has neither pdf_s3_url nor poids_pdf_ko.
NotArchived(rec) == rec.pdf_s3_url = Absent /\ rec.poids_pdf_ko = 0

\* C38: in a dry run, configured or forced for want of credentials, the
\* archival loop is not entered: download_pdf is called for no record, and
\* no record has a pdf_s3_url (URL or sentinel) or a poids_pdf_ko when the
\* ledger is written.
C38_DryRunSkipsArchival ==
    (DRY_RUN /\ sc_pc \notin {"idle", "start"}) =>
        /\ sc_pc # "archive"
        /\ \A i \in DOMAIN archive_log : ~archive_log[i].invoked
        /\ \A i \in DOMAIN all_arretes : NotArchived(all_arretes[i])
        /\ \A i \in DOMAIN saved : NotArchived(saved[i])

\* A dry run forced for want of credentials that has written records to
\* the ledger.
C38_Witness ==
    /\ DRY_RUN
    /\ ~env_dry_run
    /\ sc_pc = "returned"
    /\ saved # <<>>
    /\ \A i \in DOMAIN saved : NotArchived(saved[i])

====
